---- MODULE Spec2Model ----
(***************************************************************************)
(* Verification model of the webborrow inventory-table parser              *)
(* (src/webborrow/app.py).                                                 *)
(*                                                                         *)
(* Text is modelled as a sequence of one-character strings, so that the    *)
(* substring tests, split, strip, lower and replace of the source are      *)
(* computed character by character.  Python's None is the value None       *)
(* below, which is not a text (its only element is not one character).     *)
(*                                                                         *)
(* The source writes its box-drawing markers as fixed multi-byte literals; *)
(* each literal is one character of the model's alphabet:                  *)
(*    BoxV   column separator      (app.py:103, 115)                       *)
(*    BoxH   horizontal rule       (app.py:81, 107)                        *)
(*    BoxTL, BoxBL, BoxTee  corner and tee pieces (app.py:107)             *)
(*    BoxDH  double horizontal rule (app.py:107, 211)                      *)
(*    BoxDV  double vertical separator (app.py:211, 212)                   *)
(***************************************************************************)
EXTENDS Integers, Sequences, FiniteSets, TLC

VARIABLES
    line,              \* parse_machine_table: loop variable, the line being processed
    current_section,   \* parse_machine_table: current_section
    current_cluster,   \* parse_machine_table: current_cluster
    is_cluster_table,  \* parse_machine_table: is_cluster_table
    machines,          \* parse_machine_table: the list of records built so far
    nlines,            \* number of lines consumed by the loop
    pc,                \* "loop" while iterating, "done" after return
    last_header,       \* history: the most recent line recognised as a section header
    left_tables,       \* history: "yes" once current_section was 'ixia' or 'summary'
                       \* ("no" before that, "off" where no history is kept)
    status,            \* status classifier: the raw status text
    state,             \* status classifier: derived state
    borrower,          \* status classifier: derived borrower
    spc,               \* status classifier: "in" before, "out" after
    slines,            \* parse_summary: lines, the split output
    spos,              \* parse_summary: index of the next line of the loop
    summary,           \* parse_summary: summary
    sumpc,             \* parse_summary: "loop" while scanning, "done" after return
    atext,             \* strip_ansi: text
    aout,              \* strip_ansi: the returned text
    apc,               \* strip_ansi: "in" before the call, "out" after
    endpoint,          \* the route handler serving the request
    machine_name,      \* the <machine_name> of the route
    cmd,               \* run_pyborrow: cmd
    stdout,            \* run_pyborrow: the returned stdout
    stderr,            \* run_pyborrow: the returned stderr
    code,              \* run_pyborrow: the returned return code
    response,          \* the handler's JSON response and HTTP status
    apipc,             \* "idle", "run" (tool running), "ret", "done"
    sync_state,        \* diary: sync_state
    threads,           \* diary: per thread, its place in sync_with_remote, the
                       \* value it returned, and two history fields
    subjects,          \* time tracker: rows of table subjects
    entries,           \* time tracker: rows of table time_entries
    subject_seq,       \* time tracker: AUTOINCREMENT sequence of subjects
    entry_seq,         \* time tracker: AUTOINCREMENT sequence of time_entries
    foreign_keys,      \* time tracker: the connection's foreign_keys setting
    http,              \* time tracker: HTTP status of the last response
    client,            \* machine_clean: self.client, "none", "open" or "closed"
    clog,              \* machine_clean: the methods run so far, in order
    results,           \* machine_clean: run_full_cleanup's results
    cpc,               \* machine_clean: position in run_full_cleanup
    files,             \* deploy_cheetah: scp_files' argument files
    scp_pc,            \* deploy_cheetah: position in scp_files
    scp_pos,           \* deploy_cheetah: number of files the loop has taken
    success,           \* deploy_cheetah: scp_files' local success
    scp_ret,           \* deploy_cheetah: the value scp_files returned
    scp_log            \* deploy_cheetah: the commands run so far, in order

vars == <<line, current_section, current_cluster, is_cluster_table, machines,
          nlines, pc, last_header, left_tables, status, state, borrower, spc,
          slines, spos, summary, sumpc, atext, aout, apc,
          endpoint, machine_name, cmd, stdout, stderr, code, response, apipc,
          sync_state, threads,
          subjects, entries, subject_seq, entry_seq, foreign_keys, http,
          client, clog, results, cpc,
          files, scp_pc, scp_pos, success, scp_ret, scp_log>>

parserVars == <<line, current_section, current_cluster, is_cluster_table,
                machines, nlines, pc, last_header, left_tables>>

statusVars == <<status, state, borrower, spc>>

summaryVars == <<slines, spos, summary, sumpc>>

ansiVars == <<atext, aout, apc>>

apiVars == <<endpoint, machine_name, cmd, stdout, stderr, code, response, apipc>>

webVars == <<parserVars, statusVars, summaryVars, ansiVars, apiVars>>

diaryVars == <<sync_state, threads>>

trackerVars == <<subjects, entries, subject_seq, entry_seq, foreign_keys, http>>

cleanupVars == <<client, clog, results, cpc>>

scpVars == <<files, scp_pc, scp_pos, success, scp_ret, scp_log>>

\* the variables of the programs other than webborrow
toolVars == <<diaryVars, trackerVars, cleanupVars, scpVars>>

\* the variables of the programs other than the diary
notDiaryVars == <<webVars, trackerVars, cleanupVars, scpVars>>

\* the variables of the programs other than the time tracker
notTrackerVars == <<webVars, diaryVars, cleanupVars, scpVars>>

\* the variables of the programs other than machine_clean
notCleanupVars == <<webVars, diaryVars, trackerVars, scpVars>>

\* the variables of the programs other than deploy_cheetah
notScpVars == <<webVars, diaryVars, trackerVars, cleanupVars>>

None == <<"None">>

----------------------------------------------------------------------------
(* Bounds *)

MaxLines == 4

MaxPieces == 3

MaxSumLines == 3

MaxAnsiLen == 6

MaxOutLines == 2

----------------------------------------------------------------------------
(* Characters *)

BoxV == "|"
BoxH == "-"
BoxTL == "{"
BoxBL == "}"
BoxTee == "+"
BoxDH == "="
BoxDV == "#"

\* the escape character \x1b of the pattern at app.py:27
Esc == "^"

Whitespace == {" ", "\t"}

Digits == {"0", "1", "2", "3", "4", "5", "6", "7", "8", "9"}

UpperAlpha == <<"A","B","C","D","E","F","G","H","I","J","K","L","M",
                "N","O","P","Q","R","S","T","U","V","W","X","Y","Z">>

LowerAlpha == <<"a","b","c","d","e","f","g","h","i","j","k","l","m",
                "n","o","p","q","r","s","t","u","v","w","x","y","z">>

----------------------------------------------------------------------------
(* Python string primitives used by the parser *)

\* p in s
Contains(s, p) ==
    \E i \in 1..(Len(s) - Len(p) + 1) : SubSeq(s, i, i + Len(p) - 1) = p

\* s.startswith(p)
StartsWith(s, p) ==
    Len(s) >= Len(p) /\ SubSeq(s, 1, Len(p)) = p

\* c.lower() for one character
LowerChar(c) ==
    IF \E k \in 1..Len(UpperAlpha) : UpperAlpha[k] = c
    THEN LowerAlpha[CHOOSE k \in 1..Len(UpperAlpha) : UpperAlpha[k] = c]
    ELSE c

\* s.lower()
Lower(s) == [i \in 1..Len(s) |-> LowerChar(s[i])]

\* s.strip()
Strip(s) ==
    LET keep == {i \in 1..Len(s) : s[i] \notin Whitespace}
    IN  IF keep = {} THEN <<>>
        ELSE LET lo == CHOOSE i \in keep : \A j \in keep : i <= j
                 hi == CHOOSE i \in keep : \A j \in keep : i >= j
             IN  SubSeq(s, lo, hi)

\* s.split(sep) for a one-character separator: the list of the pieces
\* between separators, empty pieces included
Split(s, sep) ==
    LET cuts == {i \in 1..Len(s) : s[i] = sep}
        n == Cardinality(cuts) + 1
        \* the place of the k-th separator, with one before and one after s
        Cut(k) == IF k = 0 THEN 0
                  ELSE IF k = n THEN Len(s) + 1
                  ELSE CHOOSE p \in cuts : Cardinality({q \in cuts : q < p}) = k - 1
    IN  [k \in 1..n |-> SubSeq(s, Cut(k - 1) + 1, Cut(k) - 1)]

\* s.replace(old, ''): occurrences of old are removed left to right,
\* without rescanning the result
RECURSIVE RemoveFrom(_, _, _)
RemoveFrom(s, old, i) ==
    IF i > Len(s) THEN <<>>
    ELSE IF i + Len(old) - 1 <= Len(s) /\ SubSeq(s, i, i + Len(old) - 1) = old
    THEN RemoveFrom(s, old, i + Len(old))
    ELSE <<s[i]>> \o RemoveFrom(s, old, i + 1)

RemoveAll(s, old) == RemoveFrom(s, old, 1)

\* [p for p in parts if p != '']
NonEmpty(parts) == SelectSeq(parts, LAMBDA p : p # <<>>)

----------------------------------------------------------------------------
(* strip_ansi, app.py:25-28: re.compile(r'\x1b\[[0-9;]*m').sub('', text) *)

SgrParams == Digits \cup {";"}

\* the first index >= i whose character is not in set (Len(s) + 1 if none)
RECURSIVE RunEnd(_, _, _)
RunEnd(s, i, set) ==
    IF i <= Len(s) /\ s[i] \in set THEN RunEnd(s, i + 1, set) ELSE i

\* the pattern matches at index i: ESC, '[', any digits and semicolons, 'm'
SgrAt(s, i) ==
    /\ i + 2 <= Len(s)
    /\ s[i] = Esc
    /\ s[i + 1] = "["
    /\ RunEnd(s, i + 2, SgrParams) <= Len(s)
    /\ s[RunEnd(s, i + 2, SgrParams)] = "m"

\* sub('', text) from index i on: the leftmost match is removed and the scan
\* resumes after it; the result is not scanned again
RECURSIVE StripFrom(_, _)
StripFrom(s, i) ==
    LET found == {j \in i..Len(s) : SgrAt(s, j)}
    IN  IF found = {} THEN SubSeq(s, i, Len(s))
        ELSE LET j == CHOOSE k \in found : \A l \in found : k <= l
             IN  SubSeq(s, i, j - 1)
                     \o StripFrom(s, RunEnd(s, j + 2, SgrParams) + 1)

StripAnsi(text) == StripFrom(text, 1)

----------------------------------------------------------------------------
(* Literals of parse_machine_table *)

StandAloneMarker == <<"S","t","a","n","d"," ","a","l","o","n","e">>

ClusterWord == <<"C","l","u","s","t","e","r">>

IxiaMarker == <<"D","P"," ","I","X","I","A","s">>

TotalWord == <<"T","o","t","a","l">>

FreeWord == <<"F","r","e","e">>

TakenWord == <<"T","a","k","e","n">>

HeaderName == <<"w","b","o","x","_","n","a","m","e">>

HeaderVendor == <<"v","e","n","d","o","r">>

HeaderType == <<"t","y","p","e">>

HeaderRevision == <<"r","e","v","i","s","i","o","n">>

SecStandalone == <<"s","t","a","n","d","a","l","o","n","e">>

SecClusterPrefix == <<"c","l","u","s","t","e","r","_">>

SecIxia == <<"i","x","i","a">>

SecSummary == <<"s","u","m","m","a","r","y">>

KwAvailable == <<"a","v","a","i","l","a","b","l","e">>

KwNoPing == <<"n","o"," ","p","i","n","g">>

KwNoSsh == <<"n","o"," ","s","s","h">>

KwNoCheetah == <<"n","o"," ","c","h","e","e","t","a","h">>

KwDeploy == <<"d","e","p","l","o","y">>

KwParen == <<"(">>

DeployMarker == <<"(","d","e","p","l","o","y",")">>


\* MinColumns one too small
MinColumnsOffByOne == 6 - 1

MinColumns == 6

\* ClusterMinColumns equal to the standalone minimum
ClusterMinColumnsAsStandalone == 10 - 4

ClusterMinColumns == 10

----------------------------------------------------------------------------
(* re.search(r'Cluster\s+(\d+)', line) *)

\* the pattern matches with 'Cluster' starting at index i
ClusterMatchAt(s, i) ==
    LET w  == i + Len(ClusterWord)
        d  == RunEnd(s, w, Whitespace)
        e  == RunEnd(s, d, Digits)
    IN  /\ i + Len(ClusterWord) - 1 <= Len(s)
        /\ SubSeq(s, i, i + Len(ClusterWord) - 1) = ClusterWord
        /\ d > w
        /\ e > d

\* match.group(1) of the leftmost match, None when there is no match
ClusterId(s) ==
    LET at == {i \in 1..Len(s) : ClusterMatchAt(s, i)}
    IN  IF at = {} THEN None
        ELSE LET i == CHOOSE k \in at : \A j \in at : k <= j
                 d == RunEnd(s, i + Len(ClusterWord), Whitespace)
             IN  SubSeq(s, d, RunEnd(s, d, Digits) - 1)

----------------------------------------------------------------------------
(* Section headers, app.py:75-94 *)

Section(sec, clu, ict, hdr) ==
    [section |-> sec, cluster |-> clu, is_cluster_table |-> ict, header |-> hdr]

\* SectionStep where a 'Cluster' line without id leaves every section
SectionStepNoIdResets(sec, clu, ict, ln) ==
    IF Contains(ln, StandAloneMarker)
    THEN Section(SecStandalone, None, FALSE, TRUE)
    ELSE IF Contains(ln, ClusterWord) /\ ~Contains(ln, <<BoxH>>)
    THEN IF ClusterId(ln) # None
         THEN Section(SecClusterPrefix \o ClusterId(ln), ClusterId(ln), TRUE, TRUE)
         ELSE Section(None, None, FALSE, TRUE)
    ELSE IF Contains(ln, IxiaMarker)
    THEN Section(SecIxia, clu, ict, TRUE)
    ELSE IF Contains(ln, TotalWord) /\ Contains(ln, FreeWord) /\ Contains(ln, TakenWord)
    THEN Section(SecSummary, clu, ict, TRUE)
    ELSE Section(sec, clu, ict, FALSE)

\* SectionStep where 'ixia' and 'summary' are never left
SectionStepAbsorbing(sec, clu, ict, ln) ==
    IF sec = SecIxia \/ sec = SecSummary
    THEN Section(sec, clu, ict, TRUE)
    ELSE IF Contains(ln, StandAloneMarker)
    THEN Section(SecStandalone, None, FALSE, TRUE)
    ELSE IF Contains(ln, ClusterWord) /\ ~Contains(ln, <<BoxH>>)
    THEN IF ClusterId(ln) # None
         THEN Section(SecClusterPrefix \o ClusterId(ln), ClusterId(ln), TRUE, TRUE)
         ELSE Section(sec, clu, ict, TRUE)
    ELSE IF Contains(ln, IxiaMarker)
    THEN Section(SecIxia, clu, ict, TRUE)
    ELSE IF Contains(ln, TotalWord) /\ Contains(ln, FreeWord) /\ Contains(ln, TakenWord)
    THEN Section(SecSummary, clu, ict, TRUE)
    ELSE Section(sec, clu, ict, FALSE)

\* SectionStep with the 'Cluster' test placed before the standalone test
SectionStepClusterFirst(sec, clu, ict, ln) ==
    IF Contains(ln, ClusterWord) /\ ~Contains(ln, <<BoxH>>)
    THEN IF ClusterId(ln) # None
         THEN Section(SecClusterPrefix \o ClusterId(ln), ClusterId(ln), TRUE, TRUE)
         ELSE Section(sec, clu, ict, TRUE)
    ELSE IF Contains(ln, StandAloneMarker)
    THEN Section(SecStandalone, None, FALSE, TRUE)
    ELSE IF Contains(ln, IxiaMarker)
    THEN Section(SecIxia, clu, ict, TRUE)
    ELSE IF Contains(ln, TotalWord) /\ Contains(ln, FreeWord) /\ Contains(ln, TakenWord)
    THEN Section(SecSummary, clu, ict, TRUE)
    ELSE Section(sec, clu, ict, FALSE)

\* SectionStep whose standalone branch keeps the cluster id and table flag
SectionStepKeepCluster(sec, clu, ict, ln) ==
    IF Contains(ln, StandAloneMarker)
    THEN Section(SecStandalone, clu, ict, TRUE)
    ELSE IF Contains(ln, ClusterWord) /\ ~Contains(ln, <<BoxH>>)
    THEN IF ClusterId(ln) # None
         THEN Section(SecClusterPrefix \o ClusterId(ln), ClusterId(ln), TRUE, TRUE)
         ELSE Section(sec, clu, ict, TRUE)
    ELSE IF Contains(ln, IxiaMarker)
    THEN Section(SecIxia, clu, ict, TRUE)
    ELSE IF Contains(ln, TotalWord) /\ Contains(ln, FreeWord) /\ Contains(ln, TakenWord)
    THEN Section(SecSummary, clu, ict, TRUE)
    ELSE Section(sec, clu, ict, FALSE)

\* The if/elif chain that detects section headers.  header is TRUE when the
\* branch taken ends in `continue`.
SectionStep(sec, clu, ict, ln) ==
    IF Contains(ln, StandAloneMarker)
    THEN Section(SecStandalone, None, FALSE, TRUE)
    ELSE IF Contains(ln, ClusterWord) /\ ~Contains(ln, <<BoxH>>)
    THEN IF ClusterId(ln) # None
         THEN Section(SecClusterPrefix \o ClusterId(ln), ClusterId(ln), TRUE, TRUE)
         ELSE Section(sec, clu, ict, TRUE)
    ELSE IF Contains(ln, IxiaMarker)
    THEN Section(SecIxia, clu, ict, TRUE)
    ELSE IF Contains(ln, TotalWord) /\ Contains(ln, FreeWord) /\ Contains(ln, TakenWord)
    THEN Section(SecSummary, clu, ict, TRUE)
    ELSE Section(sec, clu, ict, FALSE)

\* ValidSection that only tests that some section was entered
ValidSectionAnyHeader(sec) == sec # None

\* "Skip if not in a valid section", app.py:96-100: TRUE when the line is
\* not skipped.  The outer condition is (A and B) or C; with sec = None the
\* left disjunct is true and startswith is never called on None.
ValidSection(sec) ==
    LET outer == \/ (sec # SecStandalone /\ sec = None)
                 \/ ~StartsWith(sec, SecClusterPrefix)
        inner == /\ sec # SecStandalone
                 /\ ~(sec # None /\ StartsWith(sec, SecClusterPrefix))
    IN  ~(outer /\ inner)

----------------------------------------------------------------------------
(* Row tokenizer and column mapper, app.py:102-166 *)

\* "Skip non-data lines" and "Skip header/separator lines", app.py:102-112
IsDataLine(ln) ==
    /\ Contains(ln, <<BoxV>>)
    /\ ~(\/ Contains(ln, <<BoxH>>) \/ Contains(ln, <<BoxTL>>)
         \/ Contains(ln, <<BoxBL>>) \/ Contains(ln, <<BoxTee>>)
         \/ Contains(ln, <<BoxDH>>))
    /\ ~(\/ Contains(ln, HeaderName)
         \/ (/\ Contains(ln, HeaderVendor) /\ Contains(ln, HeaderType)
             /\ Contains(ln, HeaderRevision)))

\* parts = [p.strip() for p in line.split(sep)]; parts = [p for p in parts if p != '']
RowParts(ln) ==
    LET raw == Split(ln, BoxV)
    IN  NonEmpty([i \in 1..Len(raw) |-> Strip(raw[i])])

\* parts[i] if len(parts) > i else ''
Field(parts, i) == IF Len(parts) > i THEN parts[i + 1] ELSE <<>>

\* MachineOf with the standalone column mapping used in cluster tables too
MachineOfNoNce(parts, ict, clu) ==
    IF Len(parts) >= MinColumns /\ (~ict \/ Len(parts) >= ClusterMinColumns)
    THEN << [vendor          |-> Field(parts, 0),
             type            |-> Field(parts, 1),
             revision        |-> Field(parts, 2),
             name            |-> Field(parts, 3),
             baseos_version  |-> Field(parts, 4),
             status          |-> Field(parts, 5),
             borrow_uptime   |-> Field(parts, 6),
             git_branch      |-> Field(parts, 7),
             last_connection |-> Field(parts, 8),
             comment         |-> Field(parts, 9),
             cluster         |-> clu] >>
    ELSE <<>>

\* The machine dict built at app.py:121-155, as a sequence of zero (machine
\* is None) or one record.
MachineOf(parts, ict, clu) ==
    IF ict /\ Len(parts) >= ClusterMinColumns
    THEN << [nce_id          |-> Field(parts, 0),
             vendor          |-> Field(parts, 1),
             type            |-> Field(parts, 2),
             revision        |-> Field(parts, 3),
             name            |-> Field(parts, 4),
             baseos_version  |-> Field(parts, 5),
             status          |-> Field(parts, 6),
             borrow_uptime   |-> Field(parts, 7),
             git_branch      |-> Field(parts, 8),
             last_connection |-> Field(parts, 9),
             comment         |-> Field(parts, 10),
             cluster         |-> clu] >>
    ELSE IF ~ict /\ Len(parts) >= MinColumns
    THEN << [vendor          |-> Field(parts, 0),
             type            |-> Field(parts, 1),
             revision        |-> Field(parts, 2),
             name            |-> Field(parts, 3),
             baseos_version  |-> Field(parts, 4),
             status          |-> Field(parts, 5),
             borrow_uptime   |-> Field(parts, 6),
             git_branch      |-> Field(parts, 7),
             last_connection |-> Field(parts, 8),
             comment         |-> Field(parts, 9),
             cluster         |-> None] >>
    ELSE <<>>

\* The three discards after the dict is built, app.py:157-166
KeepMachine(m) ==
    /\ m.name # <<>>
    /\ m.name # HeaderName
    /\ ~(m.name = <<>> /\ m.vendor = <<>>)

----------------------------------------------------------------------------
(* Status classifier, app.py:168-190 *)

\* StateOf with the 'no ping' test placed before the 'available' test
StateOfPingFirst(st) ==
    LET status_lower == Lower(st)
    IN  IF Contains(status_lower, KwNoPing) THEN "offline"
        ELSE IF Contains(status_lower, KwAvailable) THEN "available"
        ELSE IF Contains(status_lower, KwNoSsh) THEN "no_ssh"
        ELSE IF Contains(status_lower, KwNoCheetah) THEN "no_cheetah"
        ELSE IF Contains(status_lower, KwDeploy) /\ ~Contains(status_lower, KwParen)
        THEN "deployed"
        ELSE "borrowed"

\* StateOf without the parenthesis test of the 'deploy' rule
StateOfDeployAnyParen(st) ==
    LET status_lower == Lower(st)
    IN  IF Contains(status_lower, KwAvailable) THEN "available"
        ELSE IF Contains(status_lower, KwNoPing) THEN "offline"
        ELSE IF Contains(status_lower, KwNoSsh) THEN "no_ssh"
        ELSE IF Contains(status_lower, KwNoCheetah) THEN "no_cheetah"
        ELSE IF Contains(status_lower, KwDeploy) THEN "deployed"
        ELSE "borrowed"

StateOf(st) ==
    LET status_lower == Lower(st)
    IN  IF Contains(status_lower, KwAvailable) THEN "available"
        ELSE IF Contains(status_lower, KwNoPing) THEN "offline"
        ELSE IF Contains(status_lower, KwNoSsh) THEN "no_ssh"
        ELSE IF Contains(status_lower, KwNoCheetah) THEN "no_cheetah"
        ELSE IF Contains(status_lower, KwDeploy) /\ ~Contains(status_lower, KwParen)
        THEN "deployed"
        ELSE "borrowed"

\* BorrowerName without the trim
BorrowerNameNoStrip(st) ==
    LET b == RemoveAll(st, DeployMarker)
    IN  IF b # <<>> THEN b ELSE st

\* borrower = status.replace('(deploy)', '').strip(); borrower if borrower else status
BorrowerName(st) ==
    LET b == Strip(RemoveAll(st, DeployMarker))
    IN  IF b # <<>> THEN b ELSE st

BorrowerOf(st) ==
    IF StateOf(st) = "borrowed" THEN BorrowerName(st) ELSE None

\* the record appended to machines: the dict with state and borrower added
WithState(m) ==
    [k \in DOMAIN m \cup {"state", "borrower"} |->
        IF k = "state" THEN StateOf(m.status)
        ELSE IF k = "borrower" THEN BorrowerOf(m.status)
        ELSE m[k]]

\* What one non-header line appends to machines: zero or one record.
EmitFor(ln, sec, clu, ict) ==
    IF ~ValidSection(sec) THEN <<>>
    ELSE IF ~IsDataLine(ln) THEN <<>>
    ELSE LET parts == RowParts(ln)
         IN  IF Len(parts) < MinColumns THEN <<>>
             ELSE LET got == MachineOf(parts, ict, clu)
                  IN  IF got = <<>> THEN <<>>
                      ELSE IF ~KeepMachine(got[1]) THEN <<>>
                      ELSE <<WithState(got[1])>>


----------------------------------------------------------------------------
(* Input lines.  The parser receives the lines of the inventory tool's
   output after strip_ansi and split on newline; each step of the loop
   takes one of the following. *)

\* standalone section header: Stand alone:
LnStandalone ==
    <<"S","t","a","n","d"," ","a","l","o","n","e",":">>

\* cluster header, id 2: Cluster 2
LnCluster2 ==
    <<"C","l","u","s","t","e","r"," ","2">>

\* cluster header, several blanks and digits: = Cluster <TAB>13 =
LnCluster13 ==
    <<"="," ","C","l","u","s","t","e","r"," ","\t","1","3"," ","=">>

\* the word Cluster with no id: Clusters
LnClusterNoId ==
    <<"C","l","u","s","t","e","r","s">>

\* a rule line that mentions a cluster: -- Cluster 4 --
LnClusterRule ==
    <<"-","-"," ","C","l","u","s","t","e","r"," ","4"," ","-","-">>

\* both the standalone marker and a cluster id: Stand alone, not Cluster 5
LnStandCluster ==
    <<"S","t","a","n","d"," ","a","l","o","n","e",","," ","n","o","t"," ","C",
      "l","u","s","t","e","r"," ","5">>

\* the standalone marker and the word Cluster with no id: Stand alone, no Cluster
LnStandNoId ==
    <<"S","t","a","n","d"," ","a","l","o","n","e",","," ","n","o"," ","C",
      "l","u","s","t","e","r">>

\* IXIA section header: DP IXIAs
LnIxia ==
    <<"D","P"," ","I","X","I","A","s">>

\* summary table header: | Total | Free | Taken |
LnSummary ==
    <<"|"," ","T","o","t","a","l"," ","|"," ","F","r","e","e"," ","|"," ","T",
      "a","k","e","n"," ","|">>

\* the word Cluster with no id, and the IXIA marker: DP IXIAs of Cluster A
LnClusterIxia ==
    <<"D","P"," ","I","X","I","A","s"," ","o","f"," ","C","l","u","s","t","e",
      "r"," ","A">>

\* data row, 10 fields: | v | t | r | m1 | os | john (deploy) | up | br | lc | cm |
LnRow10 ==
    <<"|"," ","v"," ","|"," ","t"," ","|"," ","r"," ","|"," ","m","1"," ","|",
      " ","o","s"," ","|"," ","j","o","h","n"," ","(","d","e","p","l","o",
      "y",")"," ","|"," ","u","p"," ","|"," ","b","r"," ","|"," ","l","c",
      " ","|"," ","c","m"," ","|">>

\* data row, 11 fields: |n1|v|t|r|m2|os|Available|up|br|lc|cm|
LnRow11 ==
    <<"|","n","1","|","v","|","t","|","r","|","m","2","|","o","s","|","A","v",
      "a","i","l","a","b","l","e","|","u","p","|","b","r","|","l","c","|",
      "c","m","|">>

\* data row, 5 fields: |v|t|r|m3|os|
LnRow5 ==
    <<"|","v","|","t","|","r","|","m","3","|","o","s","|">>

\* data row, 7 fields: | v | t | r | m4 | os | no ping | up |
LnRow7 ==
    <<"|"," ","v"," ","|"," ","t"," ","|"," ","r"," ","|"," ","m","4"," ","|",
      " ","o","s"," ","|"," ","n","o"," ","p","i","n","g"," ","|"," ","u",
      "p"," ","|">>

\* data row, 10 columns, borrow_uptime column empty: |v|t|r|m5|os|bob||br|lc|cm|
LnRowGap ==
    <<"|","v","|","t","|","r","|","m","5","|","o","s","|","b","o","b","|","|",
      "b","r","|","l","c","|","c","m","|">>

\* data row, 10 columns, name column empty: |v|t|r||os|bob|up|br|lc|cm|
LnRowNoName ==
    <<"|","v","|","t","|","r","|","|","o","s","|","b","o","b","|","u","p",
      "|","b","r","|","l","c","|","c","m","|">>

\* column header row: |vendor|type|revision|wbox_name|baseos|status|
LnHeaderRow ==
    <<"|","v","e","n","d","o","r","|","t","y","p","e","|","r","e","v","i","s",
      "i","o","n","|","w","b","o","x","_","n","a","m","e","|","b","a","s",
      "e","o","s","|","s","t","a","t","u","s","|">>

\* table rule: +--+--+
LnRule ==
    <<"+","-","-","+","-","-","+">>

\* text outside any table: fetching
LnText ==
    <<"f","e","t","c","h","i","n","g">>

Catalogue ==
    <<LnStandalone,
      LnCluster2,
      LnCluster13,
      LnClusterNoId,
      LnClusterRule,
      LnStandCluster,
      LnIxia,
      LnSummary,
      LnClusterIxia,
      LnRow10,
      LnRow11,
      LnRow5,
      LnRow7,
      LnRowGap,
      LnRowNoName,
      LnHeaderRow,
      LnRule,
      LnText>>


----------------------------------------------------------------------------
(* Status texts.  A status reaching the classifier is a trimmed, non-empty
   column of a row; the texts below are built from up to MaxPieces pieces. *)

PcAvailable == <<"A","v","a","i","l","a","b","l","e">>

PcNoPing == <<"N","o"," ","P","i","n","g">>

PcNoSsh == <<"n","o"," ","s","s","h">>

PcNoCheetah == <<"n","o"," ","c","h","e","e","t","a","h">>

PcDeploy == <<"d","e","p","l","o","y">>

PcMarker == <<"(","d","e","p","l","o","y",")">>

PcMarkerUpper == <<"(","D","E","P","L","O","Y",")">>

PcParen == <<"(">>

PcBlank == <<" ">>

PcJohn == <<"j","o","h","n">>

Pieces ==
    {PcAvailable,
     PcNoPing,
     PcNoSsh,
     PcNoCheetah,
     PcDeploy,
     PcMarker,
     PcMarkerUpper,
     PcParen,
     PcBlank,
     PcJohn}

RECURSIVE Concats(_)
Concats(n) ==
    IF n = 0 THEN {<<>>}
    ELSE LET shorter == Concats(n - 1)
         IN  shorter \cup {s \o p : s \in shorter, p \in Pieces}

StatusSet == {Strip(s) : s \in Concats(MaxPieces)} \ {<<>>}

----------------------------------------------------------------------------
(* int(p), app.py:218: an optional sign, then decimal digits with single
   underscores allowed between digits; anything else raises ValueError *)

DigitSeq == <<"0", "1", "2", "3", "4", "5", "6", "7", "8", "9">>

DigitValue(c) == (CHOOSE k \in 1..Len(DigitSeq) : DigitSeq[k] = c) - 1

\* p without its sign
Unsigned(p) ==
    IF p # <<>> /\ p[1] \in {"+", "-"} THEN SubSeq(p, 2, Len(p)) ELSE p

\* int(p) does not raise
IsInt(p) ==
    LET u == Unsigned(p)
    IN  /\ u # <<>>
        /\ \A i \in 1..Len(u) : u[i] \in Digits \cup {"_"}
        /\ u[1] \in Digits
        /\ u[Len(u)] \in Digits
        /\ \A i \in 1..(Len(u) - 1) : ~(u[i] = "_" /\ u[i + 1] = "_")

RECURSIVE DecimalValue(_)
DecimalValue(d) ==
    IF d = <<>> THEN 0
    ELSE 10 * DecimalValue(SubSeq(d, 1, Len(d) - 1)) + DigitValue(d[Len(d)])

\* int(p), for p with IsInt(p)
IntValue(p) ==
    LET v == DecimalValue(SelectSeq(Unsigned(p), LAMBDA c : c # "_"))
    IN  IF p[1] = "-" THEN 0 - v ELSE v

----------------------------------------------------------------------------
(* parse_summary, app.py:197-230 *)

ZeroSummary == [total |-> 0, free |-> 0, taken |-> 0, taken_not_used |-> 0]

\* '<double bar>' in line and '<double rule>' not in line, app.py:211
SummaryCandidate(ln) ==
    Contains(ln, <<BoxDV>>) /\ ~Contains(ln, <<BoxDH>>)

\* parts = [p.strip() for p in line.split(sep)]; parts = [p for p in parts if p]
SummaryParts(ln) ==
    LET raw == Split(ln, BoxDV)
    IN  NonEmpty([i \in 1..Len(raw) |-> Strip(raw[i])])

\* SummaryAccepts without the test total >= free
SummaryAcceptsAnyOrder(parts) ==
    /\ Len(parts) = 4
    /\ \A i \in 1..4 : IsInt(parts[i])
    /\ \A i \in 1..4 : IntValue(parts[i]) >= 0

\* len(parts) == 4, every int(p) succeeds, all(v >= 0) and vals[0] >= vals[1],
\* app.py:216-219
SummaryAccepts(parts) ==
    /\ Len(parts) = 4
    /\ \A i \in 1..4 : IsInt(parts[i])
    /\ \A i \in 1..4 : IntValue(parts[i]) >= 0
    /\ IntValue(parts[1]) >= IntValue(parts[2])

\* the dict of app.py:220-225
SummaryOf(parts) ==
    [total          |-> IntValue(parts[1]),
     free           |-> IntValue(parts[2]),
     taken          |-> IntValue(parts[3]),
     taken_not_used |-> IntValue(parts[4])]

\* SummaryStep that keeps scanning after a line was accepted
SummaryStepNoBreak(sum, ln) ==
    IF SummaryCandidate(ln) /\ SummaryAccepts(SummaryParts(ln))
    THEN [summary |-> SummaryOf(SummaryParts(ln)), stop |-> FALSE]
    ELSE [summary |-> sum, stop |-> FALSE]

\* The body of the loop for one line, app.py:211-228: the summary after the
\* line, and whether the loop ended by `break`.
SummaryStep(sum, ln) ==
    IF SummaryCandidate(ln) /\ SummaryAccepts(SummaryParts(ln))
    THEN [summary |-> SummaryOf(SummaryParts(ln)), stop |-> TRUE]
    ELSE [summary |-> sum, stop |-> FALSE]

(* Input lines of parse_summary *)

\* four numbers, total >= free: # 10 # 3 # 7 # 2 #
SlValid ==
    <<"#"," ","1","0"," ","#"," ","3"," ","#"," ","7"," ","#"," ","2"," ",
      "#">>

\* four numbers, total = free: # 5 # 5 # 0 # 1 #
SlValid2 ==
    <<"#"," ","5"," ","#"," ","5"," ","#"," ","0"," ","#"," ","1"," ","#">>

\* free > total: # 3 # 10 # 0 # 0 #
SlFreeOverTotal ==
    <<"#"," ","3"," ","#"," ","1","0"," ","#"," ","0"," ","#"," ","0"," ",
      "#">>

\* a negative number: # 4 # 1 # -3 # 0 #
SlNegative ==
    <<"#"," ","4"," ","#"," ","1"," ","#"," ","-","3"," ","#"," ","0"," ",
      "#">>

\* a field that is not a number: # Total # 1 # 2 # 3 #
SlWord ==
    <<"#"," ","T","o","t","a","l"," ","#"," ","1"," ","#"," ","2"," ","#",
      " ","3"," ","#">>

\* three fields: # 8 # 2 # 6 #
SlThree ==
    <<"#"," ","8"," ","#"," ","2"," ","#"," ","6"," ","#">>

\* five fields: # 8 # 2 # 6 # 0 # 0 #
SlFive ==
    <<"#"," ","8"," ","#"," ","2"," ","#"," ","6"," ","#"," ","0"," ","#",
      " ","0"," ","#">>

\* four numbers on a double rule line: #== 9 # 1 # 8 # 0 ==#
SlRule ==
    <<"#","=","="," ","9"," ","#"," ","1"," ","#"," ","8"," ","#"," ","0",
      " ","=","=","#">>

\* four numbers between single separators: | 7 | 1 | 6 | 0 |
SlSingle ==
    <<"|"," ","7"," ","|"," ","1"," ","|"," ","6"," ","|"," ","0"," ","|">>

\* a plus sign, an underscore, a leading zero: # +12 # 1_0 # 2 # 04 #
SlSigned ==
    <<"#"," ","+","1","2"," ","#"," ","1","_","0"," ","#"," ","2"," ","#",
      " ","0","4"," ","#">>

\* four numbers and an empty field: # 6 ## 1 # 5 # 0 #
SlGap ==
    <<"#"," ","6"," ","#","#"," ","1"," ","#"," ","5"," ","#"," ","0"," ",
      "#">>

\* the empty line, as in an empty output
SlEmpty ==
    <<>>

\* no separator: fetching
SlText ==
    <<"f","e","t","c","h","i","n","g">>

SumLines ==
    {SlValid,
     SlValid2,
     SlFreeOverTotal,
     SlNegative,
     SlWord,
     SlThree,
     SlFive,
     SlRule,
     SlSingle,
     SlSigned,
     SlGap,
     SlEmpty,
     SlText}

----------------------------------------------------------------------------
(* Section headers as the text of a line shows them, for the history
   variable last_header: a line carrying the standalone marker; else a line
   carrying 'Cluster', blanks and a numeric id that is not a rule line; else
   a line carrying the IXIA marker or the three summary words, unless it is
   a line the 'Cluster' rule consumes. *)

IsStandaloneHeader(ln) == Contains(ln, StandAloneMarker)

IsClusterLine(ln) ==
    /\ ~IsStandaloneHeader(ln)
    /\ Contains(ln, ClusterWord)
    /\ ~Contains(ln, <<BoxH>>)

IsClusterHeader(ln) == IsClusterLine(ln) /\ ClusterId(ln) # None

IsIxiaHeader(ln) ==
    ~IsStandaloneHeader(ln) /\ ~IsClusterLine(ln) /\ Contains(ln, IxiaMarker)

IsSummaryHeader(ln) ==
    /\ ~IsStandaloneHeader(ln) /\ ~IsClusterLine(ln) /\ ~IsIxiaHeader(ln)
    /\ Contains(ln, TotalWord) /\ Contains(ln, FreeWord) /\ Contains(ln, TakenWord)

RecognisedHeader(ln) ==
    \/ IsStandaloneHeader(ln) \/ IsClusterHeader(ln)
    \/ IsIxiaHeader(ln) \/ IsSummaryHeader(ln)

----------------------------------------------------------------------------
(* parse_machine_table, app.py:59-194 *)

InitParser ==
    /\ line = None
    /\ current_section = None
    /\ current_cluster = None
    /\ is_cluster_table = FALSE
    /\ machines = <<>>
    /\ nlines = 0
    /\ pc = "loop"
    /\ last_header = None
    /\ left_tables = "off"

IdleParser ==
    /\ line = None
    /\ current_section = None
    /\ current_cluster = None
    /\ is_cluster_table = FALSE
    /\ machines = <<>>
    /\ nlines = 0
    /\ pc = "idle"
    /\ last_header = None
    /\ left_tables = "off"

IdleStatus ==
    /\ status = <<>>
    /\ state = "unset"
    /\ borrower = None
    /\ spc = "idle"

IdleDiary ==
    /\ sync_state = [last_sync |-> "None", last_error |-> "None", syncing |-> FALSE]
    /\ threads = <<>>

IdleTracker ==
    /\ subjects = {}
    /\ entries = {}
    /\ subject_seq = 0
    /\ entry_seq = 0
    /\ foreign_keys = FALSE
    /\ http = 0

IdleCleanup ==
    /\ client = "none"
    /\ clog = <<>>
    /\ results = <<>>
    /\ cpc = "off"

IdleScp ==
    /\ files = <<>>
    /\ scp_pc = "off"
    /\ scp_pos = 0
    /\ success = FALSE
    /\ scp_ret = "None"
    /\ scp_log = <<>>

IdleTools == IdleDiary /\ IdleTracker /\ IdleCleanup /\ IdleScp

IdleApi ==
    /\ endpoint = "none"
    /\ machine_name = None
    /\ cmd = <<>>
    /\ stdout = <<>>
    /\ stderr = <<>>
    /\ code = 0
    /\ response = [kind |-> "none"]
    /\ apipc = "off"

IdleAnsi ==
    /\ atext = <<>>
    /\ aout = <<>>
    /\ apc = "idle"

IdleSummary ==
    /\ slines = <<>>
    /\ spos = 1
    /\ summary = ZeroSummary
    /\ sumpc = "idle"

\* One iteration of `for line in lines`, app.py:74-192
ProcessLine(ln) ==
    /\ pc = "loop"
    /\ nlines < MaxLines
    /\ LET step == SectionStep(current_section, current_cluster, is_cluster_table, ln)
       IN  /\ line' = ln
           /\ nlines' = nlines + 1
           /\ current_section' = step.section
           /\ current_cluster' = step.cluster
           /\ is_cluster_table' = step.is_cluster_table
           /\ machines' = IF step.header THEN machines
                          ELSE machines \o EmitFor(ln, current_section,
                                                   current_cluster, is_cluster_table)
    /\ last_header' = IF RecognisedHeader(ln) THEN ln ELSE last_header
    /\ left_tables' = IF left_tables = "off" THEN "off"
                      ELSE IF current_section' \in {SecIxia, SecSummary} THEN "yes"
                      ELSE left_tables
    /\ UNCHANGED <<pc, statusVars, summaryVars, ansiVars, apiVars, toolVars>>

\* `return machines`, app.py:194: the input ends after any number of lines
Return ==
    /\ pc = "loop"
    /\ pc' = "done"
    /\ UNCHANGED <<line, current_section, current_cluster, is_cluster_table,
                   machines, nlines, last_header, left_tables, statusVars,
                   summaryVars, ansiVars, apiVars, toolVars>>

Init ==
    InitParser /\ IdleStatus /\ IdleSummary /\ IdleAnsi /\ IdleApi /\ IdleTools

Next ==
    \/ \E k \in 1..Len(Catalogue) : ProcessLine(Catalogue[k])
    \/ Return

Spec == Init /\ [][Next]_vars

----------------------------------------------------------------------------
(* parse_machine_table on section headers and rows, with the history of the
   sections passed *)

SectionLines ==
    {LnStandalone, LnCluster2, LnCluster13, LnClusterNoId, LnStandNoId,
     LnIxia, LnSummary, LnRow10, LnRow11, LnRow7}

InitSections ==
    /\ line = None
    /\ current_section = None
    /\ current_cluster = None
    /\ is_cluster_table = FALSE
    /\ machines = <<>>
    /\ nlines = 0
    /\ pc = "loop"
    /\ last_header = None
    /\ left_tables = "no"
    /\ IdleStatus
    /\ IdleSummary
    /\ IdleAnsi
    /\ IdleApi
    /\ IdleTools

NextSections ==
    \/ \E ln \in SectionLines : ProcessLine(ln)
    \/ Return

SpecSections == InitSections /\ [][NextSections]_vars

----------------------------------------------------------------------------
(* The status classifier of app.py:168-190 applied to one status text *)

InitStatus ==
    /\ IdleParser
    /\ IdleSummary
    /\ IdleAnsi
    /\ IdleApi
    /\ IdleTools
    /\ status \in StatusSet
    /\ state = "unset"
    /\ borrower = None
    /\ spc = "in"

ClassifyStatus ==
    /\ spc = "in"
    /\ state' = StateOf(status)
    /\ borrower' = BorrowerOf(status)
    /\ spc' = "out"
    /\ UNCHANGED <<status, parserVars, summaryVars, ansiVars, apiVars, toolVars>>

NextStatus == ClassifyStatus

SpecStatus == InitStatus /\ [][NextStatus]_vars

----------------------------------------------------------------------------
(* parse_summary, app.py:197-230, on an output of up to MaxSumLines lines *)

InitSummary ==
    /\ IdleParser
    /\ IdleStatus
    /\ IdleAnsi
    /\ IdleApi
    /\ IdleTools
    /\ slines \in UNION {[1..n -> SumLines] : n \in 1..MaxSumLines}
    /\ spos = 1
    /\ summary = ZeroSummary
    /\ sumpc = "loop"

\* One iteration of `for i, line in enumerate(lines)`, app.py:210-228
SummaryLine ==
    /\ sumpc = "loop"
    /\ spos <= Len(slines)
    /\ LET step == SummaryStep(summary, slines[spos])
       IN  /\ summary' = step.summary
           /\ sumpc' = IF step.stop THEN "done" ELSE "loop"
           /\ spos' = IF step.stop THEN spos ELSE spos + 1
    /\ UNCHANGED <<slines, parserVars, statusVars, ansiVars, apiVars, toolVars>>

\* `return summary`, app.py:230, when the lines are exhausted
SummaryReturn ==
    /\ sumpc = "loop"
    /\ spos > Len(slines)
    /\ sumpc' = "done"
    /\ UNCHANGED <<slines, spos, summary, parserVars, statusVars, ansiVars,
                   apiVars, toolVars>>

NextSummary == SummaryLine \/ SummaryReturn

SpecSummary == InitSummary /\ [][NextSummary]_vars

----------------------------------------------------------------------------
(* strip_ansi, app.py:25-28, on a text of up to MaxAnsiLen characters *)

AnsiAlphabet == {Esc, "[", "1", ";", "m", "a"}

InitAnsi ==
    /\ IdleParser
    /\ IdleStatus
    /\ IdleSummary
    /\ IdleApi
    /\ IdleTools
    /\ atext \in UNION {[1..n -> AnsiAlphabet] : n \in 0..MaxAnsiLen}
    /\ aout = <<>>
    /\ apc = "in"

StripText ==
    /\ apc = "in"
    /\ aout' = StripAnsi(atext)
    /\ apc' = "out"
    /\ UNCHANGED <<atext, parserVars, statusVars, summaryVars, apiVars, toolVars>>

NextAnsi == StripText

SpecAnsi == InitAnsi /\ [][NextAnsi]_vars

----------------------------------------------------------------------------
(* The two parsers on a whole output text, app.py:59-194 and app.py:197-230 *)

\* The evaluation of the guard at app.py:97 calls startswith on
\* current_section: with (A and B) or C it is reached only when A and B is
\* false, and raises AttributeError when current_section is None.
GuardRaisesEager(sec) == sec = None

GuardRaises(sec) ==
    /\ ~(sec # SecStandalone /\ sec = None)
    /\ sec = None

\* The loop of parse_machine_table from line i on
RECURSIVE TableScan(_, _, _, _, _, _)
TableScan(lines, i, sec, clu, ict, acc) ==
    IF i > Len(lines) THEN [raised |-> FALSE, machines |-> acc]
    ELSE LET step == SectionStep(sec, clu, ict, lines[i])
         IN  IF step.header
             THEN TableScan(lines, i + 1, step.section, step.cluster,
                            step.is_cluster_table, acc)
             ELSE IF GuardRaises(sec)
             THEN [raised |-> TRUE, machines |-> acc]
             ELSE TableScan(lines, i + 1, sec, clu, ict,
                            acc \o EmitFor(lines[i], sec, clu, ict))

\* parse_machine_table(output)
ParseMachineTable(output) ==
    TableScan(Split(StripAnsi(output), "\n"), 1, None, None, FALSE, <<>>)

\* The loop of parse_summary from line i on
RECURSIVE SummaryScan(_, _, _)
SummaryScan(lines, i, sum) ==
    IF i > Len(lines) THEN sum
    ELSE LET step == SummaryStep(sum, lines[i])
         IN  IF step.stop THEN step.summary
             ELSE SummaryScan(lines, i + 1, step.summary)

\* parse_summary(output)
ParseSummary(output) ==
    SummaryScan(Split(StripAnsi(output), "\n"), 1, ZeroSummary)

----------------------------------------------------------------------------
(* run_pyborrow and the route handlers, app.py:31-56 and app.py:239-318 *)

\* the words that make run_pyborrow add the quiet flag
BorrowFreeFlags == {"-b", "-f", "--borrow", "--free"}

\* cmd as built at app.py:36-42
Command(args) ==
    LET base == <<"python", "pyborrow.py">> \o args
    IN  IF args # <<>> /\ (\E i \in 1..Len(args) : args[i] \in BorrowFreeFlags)
        THEN Append(base, "-q")
        ELSE base

\* the stderr text of a timeout, app.py:54
TimedOutText ==
    <<"C","o","m","m","a","n","d"," ","t","i","m","e","d"," ","o","u","t">>

KwBorrowed == <<"b","o","r","r","o","w","e","d">>

KwFreed == <<"f","r","e","e","d">>

\* {} of the error response, app.py:248
EmptyDict == <<>>

\* MachinesResponse that reports a fetch error on every non-zero exit
MachinesResponseAnyFailure(out, err, c) ==
    IF c # 0
    THEN [kind |-> "error", http |-> 500, error |-> err,
          machines |-> <<>>, summary |-> EmptyDict]
    ELSE [kind |-> "machines", http |-> 200,
          machines |-> ParseMachineTable(out).machines,
          summary |-> ParseSummary(out),
          count |-> Len(ParseMachineTable(out).machines)]

\* the response of get_machines, app.py:242-258
MachinesResponse(out, err, c) ==
    IF c # 0 /\ out = <<>>
    THEN [kind |-> "error", http |-> 500, error |-> err,
          machines |-> <<>>, summary |-> EmptyDict]
    ELSE LET table == ParseMachineTable(out)
         IN  IF table.raised THEN [kind |-> "exception", http |-> 500]
             ELSE [kind |-> "machines", http |-> 200,
                   machines |-> table.machines,
                   summary |-> ParseSummary(out),
                   count |-> Len(table.machines)]

\* ActionResponse that decides on the return code alone
ActionResponseCodeOnly(keyword, name, out, err, c) ==
    IF c = 0
    THEN [kind |-> "action", http |-> 200, success |-> TRUE,
          name |-> name, output |-> StripAnsi(out)]
    ELSE [kind |-> "action", http |-> 400, success |-> FALSE,
          name |-> name, output |-> StripAnsi(out), error |-> StripAnsi(err)]

\* the response of borrow_machine (keyword 'borrowed', app.py:264-281) and of
\* free_machine (keyword 'freed', app.py:287-304)
ActionResponse(keyword, name, out, err, c) ==
    LET clean_stdout == StripAnsi(out)
        clean_stderr == StripAnsi(err)
    IN  IF c = 0 \/ Contains(Lower(clean_stdout), keyword)
        THEN [kind |-> "action", http |-> 200, success |-> TRUE,
              name |-> name, output |-> clean_stdout]
        ELSE [kind |-> "action", http |-> 400, success |-> FALSE,
              name |-> name, output |-> clean_stdout, error |-> clean_stderr]

\* the response of get_machine_details, app.py:310-318
DetailsResponse(name, out, c) ==
    [kind |-> "details", http |-> 200, name |-> name,
     details |-> StripAnsi(out), success |-> (c = 0)]

(* Inputs of the handlers *)

\* machine names of the routes: a host name and two names that are flags of
\* the tool
Names == {"wbox1", "-b", "--free"}

\* coloured data row: ESC[1m|v|t|r|m6|os|Available|ESC[0m
OutRowColoured ==
    <<"^","[","1","m","|","v","|","t","|","r","|","m","6","|","o","s","|",
      "A","v","a","i","l","a","b","l","e","|","^","[","0","m">>

\* tool message with a colour change inside the word: borESC[0mrowed
OutBorrowedSplit ==
    <<"b","o","r","^","[","0","m","r","o","w","e","d">>

\* tool message: FREED
OutFreed == <<"F","R","E","E","D">>

OutLines ==
    {LnStandalone, LnRow10, LnRow5, OutRowColoured, SlValid, SlWord,
     SlNegative, OutBorrowedSplit, OutFreed}

\* '\n'.join(lines)
RECURSIVE JoinLines(_)
JoinLines(lines) ==
    IF lines = <<>> THEN <<>>
    ELSE IF Len(lines) = 1 THEN lines[1]
    ELSE lines[1] \o <<"\n">> \o JoinLines(Tail(lines))

\* the texts the tool may write to stdout: up to MaxOutLines lines
Outputs ==
    {JoinLines(ls) : ls \in UNION {[1..n -> OutLines] : n \in 0..MaxOutLines}}

\* the texts the tool may write to stderr
ErrColoured == <<"^","[","3","1","m","n","o"," ","h","o","s","t","^","[","0","m">>

Errors == {<<>>, ErrColoured}

\* return codes of the tool
Codes == {0, 1, 2}

InitApi ==
    /\ IdleParser
    /\ IdleStatus
    /\ IdleSummary
    /\ IdleAnsi
    /\ IdleTools
    /\ endpoint = "none"
    /\ machine_name = None
    /\ cmd = <<>>
    /\ stdout = <<>>
    /\ stderr = <<>>
    /\ code = 0
    /\ response = [kind |-> "none"]
    /\ apipc = "idle"

\* a handler up to its call of subprocess.run
Call(ep, name, args) ==
    /\ apipc = "idle"
    /\ endpoint' = ep
    /\ machine_name' = name
    /\ cmd' = Command(args)
    /\ apipc' = "run"
    /\ UNCHANGED <<stdout, stderr, code, response, parserVars, statusVars,
                   summaryVars, ansiVars, toolVars>>

\* get_machines: run_pyborrow(), app.py:242
GetMachinesCall == Call("machines", None, <<>>)

\* borrow_machine: run_pyborrow(['-b', machine_name]), app.py:264
BorrowCall == \E n \in Names : Call("borrow", n, <<"-b", n>>)

\* free_machine: run_pyborrow(['-f', machine_name]), app.py:287
FreeCall == \E n \in Names : Call("free", n, <<"-f", n>>)

\* get_machine_details: run_pyborrow([machine_name]), app.py:310
DetailsCall == \E n \in Names : Call("details", n, <<n>>)

\* what run_pyborrow returns, app.py:44-56
Returned(out, err, c) ==
    /\ apipc = "run"
    /\ stdout' = out
    /\ stderr' = err
    /\ code' = c
    /\ apipc' = "ret"
    /\ UNCHANGED <<endpoint, machine_name, cmd, response, parserVars,
                   statusVars, summaryVars, ansiVars, toolVars>>

\* the tool ended within the timeout, app.py:52
ToolExit == \E out \in Outputs, err \in Errors, c \in Codes : Returned(out, err, c)

\* subprocess.TimeoutExpired, app.py:53-54
ToolTimeout == Returned(<<>>, TimedOutText, 1)

\* any other exception, app.py:55-56: stderr is str(e)
ToolException == \E err \in Errors : Returned(<<>>, err, 1)

\* the handler from the return of run_pyborrow to its response
Respond(ep, resp) ==
    /\ apipc = "ret"
    /\ endpoint = ep
    /\ response' = resp
    /\ apipc' = "done"
    /\ UNCHANGED <<endpoint, machine_name, cmd, stdout, stderr, code,
                   parserVars, statusVars, summaryVars, ansiVars, toolVars>>

GetMachinesReturn == Respond("machines", MachinesResponse(stdout, stderr, code))

BorrowReturn ==
    Respond("borrow", ActionResponse(KwBorrowed, machine_name, stdout, stderr, code))

FreeReturn ==
    Respond("free", ActionResponse(KwFreed, machine_name, stdout, stderr, code))

DetailsReturn == Respond("details", DetailsResponse(machine_name, stdout, code))

NextApi ==
    \/ GetMachinesCall
    \/ BorrowCall
    \/ FreeCall
    \/ DetailsCall
    \/ ToolExit
    \/ ToolTimeout
    \/ ToolException
    \/ GetMachinesReturn
    \/ BorrowReturn
    \/ FreeReturn
    \/ DetailsReturn

SpecApi == InitApi /\ [][NextApi]_vars



----------------------------------------------------------------------------
(* Properties of parse_machine_table, checked under Spec *)

\* a step of the loop: one more line has been processed
LineStep == nlines' = nlines + 1

\* a step of the loop that appended a record
Emitted == machines' # machines

\* a row-yielding section name
RowSection(sec) == sec = SecStandalone \/ StartsWith(sec, SecClusterPrefix)

\* C1: a line produces a machine record only if the section in force at
\* that line is 'standalone' or 'cluster_<id>'; no line processed while the
\* section is None, 'ixia' or 'summary' produces a record.
C1_RecordsOnlyInRowSections ==
    [][Emitted => RowSection(current_section)]_vars

\* C1 witness: a well-formed 10-field row was processed in the ixia section
\* and no record exists.
C1_Witness ==
    /\ line = LnRow10
    /\ current_section = SecIxia
    /\ machines = <<>>

\* The section the claim C2 gives after a line: the first matching rule of
\* (1) standalone marker, (2) 'Cluster' with a numeric id on a non-rule
\* line, (3) IXIA marker, (4) Total + Free + Taken; unchanged otherwise.
ClaimedSection(sec, ln) ==
    IF Contains(ln, StandAloneMarker) THEN SecStandalone
    ELSE IF /\ Contains(ln, ClusterWord) /\ ~Contains(ln, <<BoxH>>)
            /\ ClusterId(ln) # None
    THEN SecClusterPrefix \o ClusterId(ln)
    ELSE IF Contains(ln, IxiaMarker) THEN SecIxia
    ELSE IF Contains(ln, TotalWord) /\ Contains(ln, FreeWord) /\ Contains(ln, TakenWord)
    THEN SecSummary
    ELSE sec

\* The same with rule (2) taken by every non-rule line that carries
\* 'Cluster': with a numeric id it enters the cluster section, without one
\* it leaves the section unchanged and rules (3) and (4) are not tried.
AmendedSection(sec, ln) ==
    IF Contains(ln, StandAloneMarker) THEN SecStandalone
    ELSE IF Contains(ln, ClusterWord) /\ ~Contains(ln, <<BoxH>>)
    THEN IF ClusterId(ln) # None THEN SecClusterPrefix \o ClusterId(ln) ELSE sec
    ELSE IF Contains(ln, IxiaMarker) THEN SecIxia
    ELSE IF Contains(ln, TotalWord) /\ Contains(ln, FreeWord) /\ Contains(ln, TakenWord)
    THEN SecSummary
    ELSE sec

\* a line with both the standalone marker and 'Cluster <n>' enters
\* standalone with the cluster id cleared
BothMarkersEnterStandalone ==
    (Contains(line', StandAloneMarker) /\ ClusterId(line') # None)
        => (current_section' = SecStandalone /\ current_cluster' = None)

\* C2 as claimed: the section after each line is the result of the first
\* matching rule in the order standalone marker, 'Cluster' with numeric id on
\* a non-rule line, IXIA marker, Total+Free+Taken, and unchanged if none
\* matches.
C2_AsClaimed ==
    [][LineStep => /\ current_section' = ClaimedSection(current_section, line')
                   /\ BothMarkersEnterStandalone]_vars

\* C2 amended: the section after each line is the result of the first
\* matching rule in the order standalone marker, 'Cluster' on a non-rule
\* line (entering cluster_<id> when blanks and a numeric id follow the word,
\* leaving the section unchanged otherwise), IXIA marker, Total+Free+Taken,
\* and unchanged if none matches; a line with both the standalone marker and
\* 'Cluster <n>' enters standalone with the cluster id cleared.
C2_SectionByFirstRule ==
    [][LineStep => /\ current_section' = AmendedSection(current_section, line')
                   /\ BothMarkersEnterStandalone]_vars

\* C2 witness: in the standalone section a line carrying 'Cluster' without
\* an id, and the IXIA marker, was processed and the section is unchanged.
C2_Witness ==
    /\ line = LnClusterIxia
    /\ nlines >= 2
    /\ current_section = SecStandalone
    /\ current_cluster = None

\* C3: every emitted record carries the section of the most recent
\* recognised section header before its line: cluster is None when that
\* header carried the standalone marker, and the id n when it was
\* 'Cluster n'; records already emitted are kept as they are.
C3_RecordCarriesLastHeader ==
    [][Emitted =>
        /\ Len(machines') = Len(machines) + 1
        /\ SubSeq(machines', 1, Len(machines)) = machines
        /\ last_header # None
        /\ LET r == machines'[Len(machines')]
           IN  \/ IsStandaloneHeader(last_header) /\ r.cluster = None
               \/ IsClusterHeader(last_header) /\ r.cluster = ClusterId(last_header)
      ]_vars

\* C3 witness: one standalone row then one cluster-2 row gave cluster None
\* and cluster "2".
C3_Witness ==
    /\ Len(machines) = 2
    /\ machines[1].cluster = None
    /\ machines[2].cluster = <<"2">>
    /\ last_header = LnCluster2

----------------------------------------------------------------------------
(* Properties of the status classifier, checked under SpecStatus *)

\* the lowercased status contains kw
Has(kw) == Contains(Lower(status), kw)

States == {"available", "offline", "no_ssh", "no_cheetah", "deployed", "borrowed"}

\* C4: the derived state is one of the six states and is the outcome of the
\* first matching rule in the order 'available', 'no ping', 'no ssh',
\* 'no cheetah', 'deploy' without '(', otherwise borrowed, matched without
\* regard to letter case; borrower is None for every state but borrowed.
C4_FirstMatchingRule ==
    spc = "out" =>
        /\ state \in States
        /\ Has(KwAvailable) => state = "available"
        /\ (~Has(KwAvailable) /\ Has(KwNoPing)) => state = "offline"
        /\ (~Has(KwAvailable) /\ ~Has(KwNoPing) /\ Has(KwNoSsh)) => state = "no_ssh"
        /\ (~Has(KwAvailable) /\ ~Has(KwNoPing) /\ ~Has(KwNoSsh) /\ Has(KwNoCheetah))
               => state = "no_cheetah"
        /\ (/\ ~Has(KwAvailable) /\ ~Has(KwNoPing) /\ ~Has(KwNoSsh)
            /\ ~Has(KwNoCheetah) /\ Has(KwDeploy) /\ ~Has(KwParen))
               => state = "deployed"
        /\ (/\ ~Has(KwAvailable) /\ ~Has(KwNoPing) /\ ~Has(KwNoSsh)
            /\ ~Has(KwNoCheetah) /\ ~(Has(KwDeploy) /\ ~Has(KwParen)))
               => state = "borrowed"
        /\ state # "borrowed" => borrower = None

\* C4 witness: a status with both 'available' and 'no ping' was classified
\* available, with no borrower.
C4_Witness ==
    /\ spc = "out"
    /\ Has(KwAvailable) /\ Has(KwNoPing)
    /\ state = "available"
    /\ borrower = None

\* none of the four markers that precede the 'deploy' rule
NoEarlierMarker ==
    ~Has(KwAvailable) /\ ~Has(KwNoPing) /\ ~Has(KwNoSsh) /\ ~Has(KwNoCheetah)

\* C5: for a status that contains 'deploy' and none of 'available',
\* 'no ping', 'no ssh', 'no cheetah', the state is deployed if and only if
\* the status contains no opening parenthesis; with a parenthesis anywhere
\* the state is borrowed.
C5_DeployedIffNoParen ==
    (spc = "out" /\ Has(KwDeploy) /\ NoEarlierMarker) =>
        /\ state = "deployed" <=> ~Contains(status, KwParen)
        /\ Contains(status, KwParen) => state = "borrowed"

\* C5 witness: a status with 'deploy' first and a parenthesis after it was
\* classified borrowed.
C5_Witness ==
    /\ spc = "out"
    /\ status = PcDeploy \o PcBlank \o PcParen
    /\ state = "borrowed"

\* C6: for a record classified as borrowed, borrower is the status text with
\* the substring '(deploy)' removed and surrounding whitespace trimmed
\* ('john (deploy)' gives 'john'); when that is empty ('(deploy)' alone)
\* borrower is the raw status text.
C6_BorrowerOfBorrowed ==
    (spc = "out" /\ state = "borrowed") =>
        /\ LET rest == Strip(RemoveAll(status, DeployMarker))
           IN  borrower = IF rest = <<>> THEN status ELSE rest
        /\ status = PcJohn \o PcBlank \o PcMarker => borrower = PcJohn
        /\ status = PcMarker => borrower = PcMarker

\* C6 witness: 'john (deploy)' was classified borrowed with borrower 'john'.
C6_Witness ==
    /\ spc = "out"
    /\ status = PcJohn \o PcBlank \o PcMarker
    /\ state = "borrowed"
    /\ borrower = PcJohn

\* a borrower name: no blank, no parenthesis, no 'available'
PlainName(n) ==
    /\ n # <<>>
    /\ \A i \in 1..Len(n) : n[i] \notin Whitespace /\ n[i] # "("
    /\ ~Contains(Lower(n), KwAvailable)

\* status is n, a blank, and the deploy marker in any letter case
NameThenMarker(n) ==
    /\ Len(status) = Len(n) + 1 + Len(DeployMarker)
    /\ SubSeq(status, 1, Len(n)) = n
    /\ status[Len(n) + 1] = " "
    /\ Lower(SubSeq(status, Len(n) + 2, Len(status))) = DeployMarker

\* C7 as claimed: for a status '<name> (deploy)' with the marker written in
\* any letter case, the state is borrowed and the borrower is '<name>'.
C7_AsClaimed ==
    spc = "out" =>
        \A k \in 1..Len(status) :
            LET n == SubSeq(status, 1, k)
            IN  (PlainName(n) /\ NameThenMarker(n)) =>
                    (state = "borrowed" /\ borrower = n)

----------------------------------------------------------------------------
(* Properties of the row tokenizer and column mapper, checked under Spec *)

\* C8: a line that yields fewer than 6 usable (trimmed, non-empty) columns
\* never produces a machine record, in any section.
C8_FewColumnsNoRecord ==
    [][(LineStep /\ Len(RowParts(line')) < 6) => machines' = machines]_vars

\* C8 witness: a 5-column row was processed in the standalone section.
C8_Witness ==
    /\ line = LnRow5
    /\ current_section = SecStandalone
    /\ Len(RowParts(line)) = 5

\* the trimmed columns of a row with only the leading and trailing empty
\* ones dropped
ColumnsKeepingGaps(ln) ==
    LET raw  == Split(ln, BoxV)
        trim == [i \in 1..Len(raw) |-> Strip(raw[i])]
        full == {i \in 1..Len(trim) : trim[i] # <<>>}
    IN  IF full = {} THEN <<>>
        ELSE SubSeq(trim, CHOOSE i \in full : \A j \in full : i <= j,
                          CHOOSE i \in full : \A j \in full : i >= j)

\* C9 as claimed: only the empty fields of the outer borders are dropped; a
\* field that is empty between two separators keeps its position, so each
\* field of the record is the column at its own position.
C9_AsClaimed ==
    [][Emitted =>
        LET cols == ColumnsKeepingGaps(line')
            r    == machines'[Len(machines')]
            off  == IF "nce_id" \in DOMAIN r THEN 1 ELSE 0
        IN  /\ r.vendor = Field(cols, off)
            /\ r.type = Field(cols, off + 1)
            /\ r.revision = Field(cols, off + 2)
            /\ r.name = Field(cols, off + 3)
            /\ r.baseos_version = Field(cols, off + 4)
            /\ r.status = Field(cols, off + 5)
            /\ r.borrow_uptime = Field(cols, off + 6)
            /\ r.git_branch = Field(cols, off + 7)
            /\ r.last_connection = Field(cols, off + 8)
            /\ r.comment = Field(cols, off + 9)
      ]_vars

\* C10: the column mapping depends only on the section type.  In a cluster
\* section a row has at least 10 fields, nce_id is field 0 and fields 1..10
\* are vendor .. comment; in the standalone section a row has at least 6
\* fields and fields 0..9 are vendor .. comment; a field the row does not
\* have is the empty string; nce_id is present if and only if cluster is
\* not None.
C10_ColumnMapping ==
    [][Emitted =>
        LET parts == RowParts(line')
            r     == machines'[Len(machines')]
        IN  /\ "nce_id" \in DOMAIN r <=> r.cluster # None
            /\ StartsWith(current_section, SecClusterPrefix) =>
                  /\ Len(parts) >= 10
                  /\ "nce_id" \in DOMAIN r
                  /\ r.nce_id = parts[1]
                  /\ r.vendor = parts[2]
                  /\ r.type = parts[3]
                  /\ r.revision = parts[4]
                  /\ r.name = parts[5]
                  /\ r.baseos_version = parts[6]
                  /\ r.status = parts[7]
                  /\ r.borrow_uptime = parts[8]
                  /\ r.git_branch = parts[9]
                  /\ r.last_connection = parts[10]
                  /\ r.comment = (IF Len(parts) >= 11 THEN parts[11] ELSE <<>>)
            /\ current_section = SecStandalone =>
                  /\ Len(parts) >= 6
                  /\ "nce_id" \notin DOMAIN r
                  /\ r.vendor = parts[1]
                  /\ r.type = parts[2]
                  /\ r.revision = parts[3]
                  /\ r.name = parts[4]
                  /\ r.baseos_version = parts[5]
                  /\ r.status = parts[6]
                  /\ r.borrow_uptime = (IF Len(parts) >= 7 THEN parts[7] ELSE <<>>)
                  /\ r.git_branch = (IF Len(parts) >= 8 THEN parts[8] ELSE <<>>)
                  /\ r.last_connection = (IF Len(parts) >= 9 THEN parts[9] ELSE <<>>)
                  /\ r.comment = (IF Len(parts) >= 10 THEN parts[10] ELSE <<>>)
      ]_vars

\* C10 witness: a 7-field standalone row gave a record without nce_id whose
\* later fields are empty, and an 11-field row of cluster 2 gave a record
\* with nce_id.
C10_Witness ==
    /\ Len(machines) = 2
    /\ line = LnRow11
    /\ "nce_id" \notin DOMAIN machines[1]
    /\ machines[1].borrow_uptime # <<>>
    /\ machines[1].git_branch = <<>>
    /\ machines[1].comment = <<>>
    /\ "nce_id" \in DOMAIN machines[2]
    /\ machines[2].cluster = <<"2">>
    /\ machines[2].comment # <<>>

\* the offset of the vendor column in the row that gave record r
NceOffset(r) == IF "nce_id" \in DOMAIN r THEN 1 ELSE 0

\* C19 as claimed: no emitted record has an empty name or the name
\* 'wbox_name'; a row whose name column is empty or holds the header token
\* is discarded in every section.
C19_AsClaimed ==
    [][Emitted =>
        LET r    == machines'[Len(machines')]
            cols == ColumnsKeepingGaps(line')
        IN  /\ r.name # <<>>
            /\ r.name # HeaderName
            /\ Field(cols, NceOffset(r) + 3) # <<>>
            /\ Field(cols, NceOffset(r) + 3) # HeaderName
      ]_vars

\* a line that is no section header, no 'Cluster' line, no rule or border
\* line and no column header row, and has a column separator
PlainRow(ln) ==
    /\ ~IsStandaloneHeader(ln) /\ ~IsClusterLine(ln)
    /\ ~IsIxiaHeader(ln) /\ ~IsSummaryHeader(ln)
    /\ IsDataLine(ln)

\* the name of a row of the section: field 3, or field 4 after the nce_id
NameIn(sec, parts) ==
    IF sec = SecStandalone THEN Field(parts, 3) ELSE Field(parts, 4)

\* a step that processed a plain row with at least 6 fields and a name
RowStep ==
    /\ LineStep
    /\ PlainRow(line')
    /\ Len(RowParts(line')) >= 6
    /\ NameIn(current_section', RowParts(line')) # <<>>

\* a step that appended exactly one record
OneRecord == Len(machines') = Len(machines) + 1

\* C20 as claimed: in the standalone or a cluster section, a plain row with
\* at least 6 fields and a name yields exactly one record; a cluster row
\* with 6 to 9 fields is not dropped.
C20_AsClaimed ==
    [][(RowStep /\ RowSection(current_section')) => OneRecord]_vars

\* C20: in the standalone section a plain row with at least 6 fields yields
\* exactly one record; in a cluster section it yields exactly one record
\* when it has at least 10 fields and none when it has 6 to 9.
C20_RowYieldsOneRecord ==
    [][RowStep =>
        /\ current_section' = SecStandalone => OneRecord
        /\ StartsWith(current_section', SecClusterPrefix) =>
               IF Len(RowParts(line')) >= 10 THEN OneRecord
               ELSE machines' = machines
      ]_vars

\* C20 witness: in cluster 2 the 11-field row gave a record and the 7-field
\* row after it gave none.
C20_Witness ==
    /\ current_section = SecClusterPrefix \o <<"2">>
    /\ line = LnRow7
    /\ Len(machines) = 1
    /\ machines[1].name = <<"m","2">>

----------------------------------------------------------------------------
(* Properties of parse_summary, checked under SpecSummary *)

\* C11: the summary has total, free, taken and taken_not_used all
\* non-negative integers with total >= free, at every point of the scan and
\* in the result, the default included.
C11_SummaryInvariant ==
    /\ summary.total \in Nat
    /\ summary.free \in Nat
    /\ summary.taken \in Nat
    /\ summary.taken_not_used \in Nat
    /\ summary.total >= summary.free

\* C11 witness: after a rejected line with free > total, a line with
\* total = free was accepted and returned.
C11_Witness ==
    /\ sumpc = "done"
    /\ slines[1] = SlFreeOverTotal
    /\ summary = [total |-> 5, free |-> 5, taken |-> 0, taken_not_used |-> 1]

\* a line that uses the double-line separator and yields exactly four fields
\* that all parse as non-negative integers with the first >= the second
Qualifies(ln) ==
    LET f == SummaryParts(ln)
    IN  /\ Contains(ln, <<BoxDV>>)
        /\ Len(f) = 4
        /\ \A i \in 1..4 : IsInt(f[i]) /\ IntValue(f[i]) >= 0
        /\ IntValue(f[1]) >= IntValue(f[2])

\* C12: the result is the four values of the first line, in input order,
\* that qualifies; earlier candidates that fail are skipped, no later line
\* overrides the accepted one, and the result is all zeros when no line
\* qualifies.
C12_FirstQualifyingLine ==
    sumpc = "done" =>
        LET q == {i \in 1..Len(slines) : Qualifies(slines[i])}
        IN  IF q = {} THEN summary = ZeroSummary
            ELSE LET i == CHOOSE k \in q : \A j \in q : k <= j
                     f == SummaryParts(slines[i])
                 IN  /\ summary.total = IntValue(f[1])
                     /\ summary.free = IntValue(f[2])
                     /\ summary.taken = IntValue(f[3])
                     /\ summary.taken_not_used = IntValue(f[4])

\* C12 witness: a non-numeric candidate was skipped, '10 3 7 2' was
\* accepted, and the later '5 5 0 1' did not replace it.
C12_Witness ==
    /\ sumpc = "done"
    /\ slines = <<SlWord, SlValid, SlValid2>>
    /\ summary = [total |-> 10, free |-> 3, taken |-> 7, taken_not_used |-> 2]

----------------------------------------------------------------------------
(* Properties of strip_ansi, checked under SpecAnsi *)

\* s contains an SGR escape sequence
HasSgr(s) == \E i \in 1..Len(s) : SgrAt(s, i)

\* a is b with some characters left out, the others in their order
RECURSIVE IsSubsequence(_, _)
IsSubsequence(a, b) ==
    IF a = <<>> THEN TRUE
    ELSE IF b = <<>> THEN FALSE
    ELSE IF a[1] = b[1] THEN IsSubsequence(Tail(a), Tail(b))
    ELSE IsSubsequence(a, Tail(b))

\* C13 as claimed: the output of strip_ansi contains no SGR escape sequence
\* and consists of the input's characters outside the removed sequences, in
\* their original order.
C13_AsClaimed ==
    apc = "out" => (~HasSgr(aout) /\ IsSubsequence(aout, atext))

----------------------------------------------------------------------------
(* Properties of the route handlers, checked under SpecApi *)

\* the handler of endpoint ep has responded
Responded(ep) == apipc = "done" /\ endpoint = ep

\* C15: the machine-listing endpoint returns a fetch error if and only if
\* the tool exited non-zero and produced no output (as after a timeout);
\* otherwise the output is parsed and machines, summary and
\* count = number of machines are returned.
C15_FetchErrorIffNoOutput ==
    Responded("machines") =>
        /\ response.kind = "error" <=> (code # 0 /\ stdout = <<>>)
        /\ (stderr = TimedOutText /\ stdout = <<>> /\ code # 0)
               => response.kind = "error"
        /\ response.kind = "error" => response.http = 500
        /\ response.kind # "error" =>
               /\ response.kind = "machines"
               /\ response.machines = ParseMachineTable(stdout).machines
               /\ response.summary = ParseSummary(stdout)
               /\ response.count = Len(response.machines)

\* C15 witness: the tool exited with code 2 after printing a standalone
\* table; the endpoint returned its one machine.
C15_Witness ==
    /\ Responded("machines")
    /\ code = 2
    /\ stdout = JoinLines(<<LnStandalone, LnRow10>>)
    /\ response.kind = "machines"
    /\ response.count = 1

\* text contains word, letter case ignored
ContainsAnyCase(text, word) ==
    \E i \in 1..(Len(text) - Len(word) + 1) :
        \A k \in 1..Len(word) : LowerChar(text[i + k - 1]) = word[k]

\* C16: borrow reports success iff the exit code is 0 or the ANSI-stripped
\* stdout contains 'borrowed' in any letter case; free likewise with
\* 'freed'; otherwise the response is a failure.
C16_SuccessByCodeOrKeyword ==
    /\ Responded("borrow") =>
           /\ response.success <=>
                  (code = 0 \/ ContainsAnyCase(StripAnsi(stdout), KwBorrowed))
           /\ ~response.success => response.http = 400
    /\ Responded("free") =>
           /\ response.success <=>
                  (code = 0 \/ ContainsAnyCase(StripAnsi(stdout), KwFreed))
           /\ ~response.success => response.http = 400

\* C16 witness: the tool exited with code 1 and a 'borrowed' interrupted by
\* a colour sequence; borrow reported success.
C16_Witness ==
    /\ Responded("borrow")
    /\ code = 1
    /\ stdout = OutBorrowedSplit
    /\ response.success

\* C17 as claimed: the detail endpoint invokes the tool with the machine
\* name as its only argument; no flag is appended, whatever the name is.
C17_AsClaimed ==
    (endpoint = "details" /\ apipc # "idle") =>
        cmd = <<"python", "pyborrow.py", machine_name>>

\* the lines of the ANSI-stripped text
LinesOf(text) == Split(StripAnsi(text), "\n")

\* no line of the text enters a row-yielding section, or no line has the
\* six fields of a data row
NoRowData(text) ==
    LET ls == LinesOf(text)
    IN  \/ \A i \in 1..Len(ls) :
               ~IsStandaloneHeader(ls[i]) /\ ~IsClusterHeader(ls[i])
        \/ \A i \in 1..Len(ls) : Len(RowParts(ls[i])) < MinColumns

\* no line of the text qualifies as the summary line
NoSummaryData(text) ==
    \A i \in 1..Len(LinesOf(text)) : ~Qualifies(LinesOf(text)[i])

\* C18: parse_machine_table and parse_summary never end in an error: for
\* every text that reaches them they return a result, and a text with no
\* valid data yields an empty record list and the all-zero summary.
C18_ParsersNeverRaise ==
    (Responded("machines") /\ ~(code # 0 /\ stdout = <<>>)) =>
        /\ response.kind = "machines"
        /\ NoRowData(stdout) => response.machines = <<>>
        /\ NoSummaryData(stdout) => response.summary = ZeroSummary

\* C18 witness: a data row before any section header and a summary
\* candidate with a negative number were parsed to no machine and the
\* all-zero summary.
C18_Witness ==
    /\ Responded("machines")
    /\ stdout = JoinLines(<<LnRow10, SlNegative>>)
    /\ response.kind = "machines"
    /\ response.machines = <<>>
    /\ response.summary = ZeroSummary

----------------------------------------------------------------------------
(* Properties of the section state, checked under SpecSections *)

\* a step that left the section, the cluster id and the record list as
\* they were
SectionKept ==
    /\ current_section' = current_section
    /\ current_cluster' = current_cluster
    /\ machines' = machines

\* a line with the word 'Cluster', no numeric id next to it, and no rule
\* character
ClusterWordNoId(ln) ==
    Contains(ln, ClusterWord) /\ ~Contains(ln, <<BoxH>>) /\ ClusterId(ln) = None

\* C21 as claimed: a line that contains the word 'Cluster' but no adjacent
\* numeric id, and is not a rule line, changes neither the current section
\* nor the current cluster id and yields no record.
C21_AsClaimed ==
    [][(LineStep /\ ClusterWordNoId(line')) => SectionKept]_vars

\* C21: such a line, when it does not carry the standalone marker, changes
\* neither the current section nor the current cluster id nor the column
\* layout and yields no record; when it carries the standalone marker it
\* enters the standalone section with the cluster id cleared.
C21_ClusterWordKeepsSection ==
    [][(LineStep /\ ClusterWordNoId(line')) =>
        IF Contains(line', StandAloneMarker)
        THEN /\ current_section' = SecStandalone
             /\ current_cluster' = None
             /\ machines' = machines
        ELSE SectionKept /\ is_cluster_table' = is_cluster_table
      ]_vars

\* C21 witness: 'Clusters' was processed in cluster 2 after one record, and
\* section, cluster id and records are those of before.
C21_Witness ==
    /\ line = LnClusterNoId
    /\ current_section = SecClusterPrefix \o <<"2">>
    /\ current_cluster = <<"2">>
    /\ is_cluster_table
    /\ Len(machines) = 1

\* the payload of a header line: the id of 'Cluster <id>', None for the
\* standalone marker
HeaderCluster(ln) == IF IsStandaloneHeader(ln) THEN None ELSE ClusterId(ln)

\* the section a header line names
HeaderSection(ln) ==
    IF IsStandaloneHeader(ln) THEN SecStandalone
    ELSE SecClusterPrefix \o ClusterId(ln)

\* C22: no section is absorbing.  Once the parser has been in 'ixia' or
\* 'summary', a standalone marker or a 'Cluster <n>' header enters the
\* section it names, and a well-formed row processed in a row-yielding
\* section is emitted with the cluster value of the most recent header.
C22_NoAbsorbingSection ==
    [][(LineStep /\ left_tables = "yes") =>
        /\ (IsStandaloneHeader(line') \/ IsClusterHeader(line')) =>
               /\ current_section' = HeaderSection(line')
               /\ current_cluster' = HeaderCluster(line')
        /\ (RowSection(current_section) /\ PlainRow(line')
                /\ Len(RowParts(line')) >= 10) =>
               /\ OneRecord
               /\ machines'[Len(machines')].cluster = HeaderCluster(last_header)
      ]_vars

\* C22 witness: after the IXIA header, 'Cluster 2' was entered and its row
\* was emitted with cluster "2".
C22_Witness ==
    /\ left_tables = "yes"
    /\ nlines = 3
    /\ line = LnRow11
    /\ current_section = SecClusterPrefix \o <<"2">>
    /\ Len(machines) = 1
    /\ machines[1].cluster = <<"2">>

\* C23: the three parser variables are one section state with an optional
\* cluster id: in 'standalone' is_cluster_table is False and current_cluster
\* is None, in 'cluster_<id>' is_cluster_table is True and current_cluster
\* is the id, after any sequence of lines.
C23_SectionStateRefinement ==
    /\ current_section = SecStandalone =>
           (~is_cluster_table /\ current_cluster = None)
    /\ StartsWith(current_section, SecClusterPrefix) =>
           /\ is_cluster_table
           /\ current_cluster # None
           /\ current_section = SecClusterPrefix \o current_cluster

\* C23 witness: cluster 2 gave a record, the summary section was passed, and
\* the standalone section was entered with the cluster id cleared.
C23_Witness ==
    /\ left_tables = "yes"
    /\ Len(machines) = 1
    /\ machines[1].cluster = <<"2">>
    /\ current_section = SecStandalone
    /\ ~is_cluster_table
    /\ current_cluster = None

----------------------------------------------------------------------------
(* Further properties of strip_ansi, checked under SpecAnsi *)

\* C24 as claimed: strip_ansi is idempotent, strip_ansi(strip_ansi(x)) =
\* strip_ansi(x) for every text x.
C24_AsClaimed ==
    apc = "out" => StripAnsi(aout) = aout

----------------------------------------------------------------------------
(* diary: sync_with_remote called from several threads,
   src/diary/app.py:100-141, 352-359, 396-399, 420-428 *)

\* the periodic thread (app.py:352-359), a thread started by a request
\* (app.py:399) and the request thread of /api/sync (app.py:423)
Threads == {"background", "request", "manual"}

\* results of a git command: success, failure with 'Could not read from
\* remote' in the output, any other failure
GitResults == {"ok", "unreachable", "failed"}

PullFailed == "Pull failed"

PushFailed == "Push failed"

\* return values of sync_with_remote
RetBusy == <<FALSE, "Sync already in progress">>

RetLocal == <<TRUE, "No remote configured - local only mode">>

RetComplete == <<TRUE, "Sync complete">>

RetError == <<FALSE, "exception">>

NoRet == <<FALSE, "not returned">>

\* a thread outside sync_with_remote
IdleThread == [pc |-> "idle", ret |-> NoRet, saw |-> "None", owes |-> FALSE]

\* the finally clause that leaves the flag as it is
FinallyKeepsFlag(st) == st

\* the finally clause, app.py:140-141
Finally(st) == [st EXCEPT !.syncing = FALSE]

InitSync ==
    /\ IdleParser
    /\ IdleStatus
    /\ IdleSummary
    /\ IdleAnsi
    /\ IdleApi
    /\ IdleTracker
    /\ IdleCleanup
    /\ IdleScp
    /\ sync_state = [last_sync |-> "None", last_error |-> "None", syncing |-> FALSE]
    /\ threads = [t \in Threads |-> IdleThread]

\* thread t calls sync_with_remote
CallSync(t) ==
    /\ threads[t].pc = "idle"
    /\ threads' = [threads EXCEPT ![t] = [IdleThread EXCEPT !.pc = "check"]]
    /\ UNCHANGED <<sync_state, notDiaryVars>>

\* `if sync_state['syncing']: return False, "Sync already in progress"`,
\* app.py:104-105
CheckFlag(t) ==
    /\ threads[t].pc = "check"
    /\ threads' = [threads EXCEPT ![t] =
                      IF sync_state.syncing
                      THEN [@ EXCEPT !.pc = "idle", !.ret = RetBusy]
                      ELSE [@ EXCEPT !.pc = "set"]]
    /\ UNCHANGED <<sync_state, notDiaryVars>>

\* `sync_state['syncing'] = True`, app.py:107
SetFlag(t) ==
    /\ threads[t].pc = "set"
    /\ sync_state' = [sync_state EXCEPT !.syncing = TRUE]
    /\ threads' = [threads EXCEPT ![t] = [@ EXCEPT !.pc = "remote", !.owes = TRUE]]
    /\ UNCHANGED notDiaryVars

\* ensure_remote_configured and `git remote -v`, app.py:110-117: without a
\* remote the flag is cleared and the function returns through finally
CheckRemote(t) ==
    /\ threads[t].pc = "remote"
    /\ \E has_origin \in BOOLEAN :
          IF has_origin
          THEN /\ threads' = [threads EXCEPT ![t] = [@ EXCEPT !.pc = "pull"]]
               /\ UNCHANGED sync_state
          ELSE /\ sync_state' = [sync_state EXCEPT !.syncing = FALSE]
               /\ threads' = [threads EXCEPT ![t] =
                                 [@ EXCEPT !.pc = "finally", !.ret = RetLocal,
                                           !.owes = FALSE]]
    /\ UNCHANGED notDiaryVars

\* pull main, then master, app.py:119-126
Pull(t) ==
    /\ threads[t].pc = "pull"
    /\ \E r \in GitResults :
          IF r = "failed"
          THEN /\ sync_state' = [sync_state EXCEPT !.last_error = PullFailed]
               /\ threads' = [threads EXCEPT ![t] =
                                 [@ EXCEPT !.pc = "push", !.saw = PullFailed]]
          ELSE /\ threads' = [threads EXCEPT ![t] = [@ EXCEPT !.pc = "push"]]
               /\ UNCHANGED sync_state
    /\ UNCHANGED notDiaryVars

\* push, app.py:128-131
Push(t) ==
    /\ threads[t].pc = "push"
    /\ \E r \in GitResults :
          IF r = "failed"
          THEN /\ sync_state' = [sync_state EXCEPT !.last_error = PushFailed]
               /\ threads' = [threads EXCEPT ![t] =
                                 [@ EXCEPT !.pc = "stamp", !.saw = PushFailed]]
          ELSE /\ threads' = [threads EXCEPT ![t] = [@ EXCEPT !.pc = "stamp"]]
               /\ UNCHANGED sync_state
    /\ UNCHANGED notDiaryVars

\* app.py:133-135: last_sync = now, last_error = None, return
Stamp(t) ==
    /\ threads[t].pc = "stamp"
    /\ sync_state' = [sync_state EXCEPT !.last_sync = "now", !.last_error = "None"]
    /\ threads' = [threads EXCEPT ![t] = [@ EXCEPT !.pc = "finally", !.ret = RetComplete]]
    /\ UNCHANGED notDiaryVars

\* an exception inside the try block, app.py:137-139
Raise(t) ==
    /\ threads[t].pc \in {"remote", "pull", "push", "stamp"}
    /\ sync_state' = [sync_state EXCEPT !.last_error = "exception"]
    /\ threads' = [threads EXCEPT ![t] = [@ EXCEPT !.pc = "finally", !.ret = RetError]]
    /\ UNCHANGED notDiaryVars

\* the finally clause and the return to the caller, app.py:140-141
Release(t) ==
    /\ threads[t].pc = "finally"
    /\ sync_state' = Finally(sync_state)
    /\ threads' = [threads EXCEPT ![t] =
                      [@ EXCEPT !.pc = "idle", !.saw = "None",
                                !.owes = @ /\ Finally(sync_state).syncing]]
    /\ UNCHANGED notDiaryVars

\* the steps of thread t inside sync_with_remote
SyncStep(t) ==
    \/ CheckFlag(t)
    \/ SetFlag(t)
    \/ CheckRemote(t)
    \/ Pull(t)
    \/ Push(t)
    \/ Stamp(t)
    \/ Raise(t)
    \/ Release(t)

NextSync == \E t \in Threads : CallSync(t) \/ SyncStep(t)

SpecSync == InitSync /\ [][NextSync]_vars

\* every thread that is inside sync_with_remote goes on running: git
\* commands end within their 30 s timeout (app.py:90)
SpecSyncLive == SpecSync /\ \A t \in Threads : WF_vars(SyncStep(t))

----------------------------------------------------------------------------
(* Properties of the diary sync, checked under SpecSync and SpecSyncLive *)

\* thread t is executing the pull/push body of sync_with_remote
InBody(t) == threads[t].pc \in {"pull", "push", "stamp"}

\* C25 as claimed: at most one execution of the pull/push body of
\* sync_with_remote is in progress at any time, and a call that finds the
\* flag set returns (False, 'Sync already in progress').
C25_AsClaimed ==
    /\ Cardinality({t \in Threads : InBody(t)}) <= 1
    /\ \A t \in Threads :
           threads[t].ret = RetBusy => threads[t].pc = "idle"

\* C26: every call of sync_with_remote that set the syncing flag has set it
\* back to False when it returns, on every path, and does return; the flag
\* never stays True forever.
C26_FlagReleased ==
    /\ \A t \in Threads :
           /\ [](threads[t].pc = "idle" => ~threads[t].owes)
           /\ threads[t].owes ~> ~threads[t].owes
    /\ sync_state.syncing ~> ~sync_state.syncing

\* C26 witness: a call that set the flag ended by an exception and the flag
\* is False.
C26_Witness ==
    /\ threads["request"].pc = "idle"
    /\ threads["request"].ret = RetError
    /\ \A t \in Threads : threads[t].pc = "idle"
    /\ ~sync_state.syncing

\* no thread other than t has called sync_with_remote
Alone(t) == \A u \in Threads \ {t} : threads[u] = IdleThread

\* C27 as claimed: when the pull or push of a sync failed for a reason other
\* than an unreachable remote, last_error holds the 'Pull failed' or
\* 'Push failed' message once sync_with_remote has returned (no other sync
\* having run).
C27_AsClaimed ==
    [][\A t \in Threads :
          (/\ threads[t].pc = "finally"
           /\ threads'[t].pc = "idle"
           /\ threads[t].ret = RetComplete
           /\ threads[t].saw # "None"
           /\ Alone(t))
          => sync_state'.last_error \in {PullFailed, PushFailed}
      ]_vars

----------------------------------------------------------------------------
(* time_tracker/app.py: the subjects and time_entries tables and the four   *)
(* requests that change them.  SQLite enforces a FOREIGN KEY clause only on *)
(* a connection whose foreign_keys setting is on; get_db never sets it, so  *)
(* the setting is the library's default, which depends on how SQLite was    *)
(* built.  Both builds are modelled.                                        *)

MaxSubjects == 2
MaxEntries == 2

\* request values: name after strip(), subject_id (0 stands for a missing or
\* zero value), minutes, and the <int:...> ids of the DELETE routes
SubjectNames == {"", "work", "play"}
SubjectIds == 0 .. (MaxSubjects + 1)
MinuteValues == {0 - 5, 0, 30}
RouteSubjectIds == 1 .. (MaxSubjects + 1)
RouteEntryIds == 1 .. (MaxEntries + 1)

\* init_db: empty tables
InitTracker ==
    /\ IdleParser
    /\ IdleStatus
    /\ IdleSummary
    /\ IdleAnsi
    /\ IdleApi
    /\ IdleDiary
    /\ IdleCleanup
    /\ IdleScp
    /\ subjects = {}
    /\ entries = {}
    /\ subject_seq = 0
    /\ entry_seq = 0
    /\ foreign_keys \in BOOLEAN
    /\ http = 0

SubjectExists(id) == \E s \in subjects : s.id = id

\* POST /api/subjects
create_subject(name) ==
    /\ IF name = "" \/ (\E s \in subjects : s.name = name)
       THEN /\ http' = 400
            /\ UNCHANGED <<subjects, subject_seq>>
       ELSE /\ subject_seq < MaxSubjects
            /\ subject_seq' = subject_seq + 1
            /\ subjects' = subjects \cup {[id |-> subject_seq + 1, name |-> name]}
            /\ http' = 200
    /\ UNCHANGED <<entries, entry_seq, foreign_keys, notTrackerVars>>

\* DELETE /api/subjects/<int:subject_id>
delete_subject(subject_id) ==
    /\ entries' = {e \in entries : e.subject_id # subject_id}
    /\ subjects' = {s \in subjects : s.id # subject_id}
    /\ http' = 200
    /\ UNCHANGED <<subject_seq, entry_seq, foreign_keys, notTrackerVars>>

\* POST /api/entries
create_entry(subject_id, minutes) ==
    /\ IF subject_id = 0 \/ minutes <= 0
       THEN /\ http' = 400
            /\ UNCHANGED <<entries, entry_seq>>
       ELSE IF foreign_keys /\ ~SubjectExists(subject_id)
       THEN \* sqlite3.IntegrityError, not caught by the handler
            /\ http' = 500
            /\ UNCHANGED <<entries, entry_seq>>
       ELSE /\ entry_seq < MaxEntries
            /\ entry_seq' = entry_seq + 1
            /\ entries' = entries \cup {[id |-> entry_seq + 1,
                                         subject_id |-> subject_id,
                                         minutes |-> minutes]}
            /\ http' = 200
    /\ UNCHANGED <<subjects, subject_seq, foreign_keys, notTrackerVars>>

\* DELETE /api/entries/<int:entry_id>
delete_entry(entry_id) ==
    /\ entries' = {e \in entries : e.id # entry_id}
    /\ http' = 200
    /\ UNCHANGED <<subjects, subject_seq, entry_seq, foreign_keys, notTrackerVars>>

NextTracker ==
    \/ \E name \in SubjectNames : create_subject(name)
    \/ \E id \in RouteSubjectIds : delete_subject(id)
    \/ \E id \in SubjectIds, mins \in MinuteValues : create_entry(id, mins)
    \/ \E id \in RouteEntryIds : delete_entry(id)

SpecTracker == InitTracker /\ [][NextTracker]_vars

\* C28 as claimed: after any sequence of create_subject, create_entry,
\* delete_subject and delete_entry requests every stored time entry references
\* an existing subject.
C28_AsClaimed ==
    \A e \in entries : SubjectExists(e.subject_id)

----------------------------------------------------------------------------
(* cheetah/machine_clean.py: MachineCleanup.run_full_cleanup.  cpc names    *)
(* the call the method makes next; clog records each call and its outcome.  *)

\* the order with git_clean and docker_cleanup exchanged
StepAfterDockerFirst(step) ==
    CASE step = "disk_before" -> "docker_cleanup"
      [] step = "docker_cleanup" -> "git_clean"
      [] step = "git_clean" -> "disk_after"
      [] step = "disk_after" -> "remote_var"

\* the statement that follows a step inside the try block, lines 423-439
StepAfter(step) ==
    CASE step = "disk_before" -> "git_clean"
      [] step = "git_clean" -> "docker_cleanup"
      [] step = "docker_cleanup" -> "disk_after"
      [] step = "disk_after" -> "remote_var"

\* the calls of the try block: each runs commands through run_command
TrySteps == {"disk_before", "git_clean", "docker_cleanup", "disk_after",
             "remote_var", "nested"}

\* get_disk_usage returns the parsed partitions or one placeholder row
DiskResults == {"partitions", "placeholder"}

\* get_remote_machine_var returns the host found or None
RemoteMachines == {"None", "nested-host"}

Logged(method, result) == Append(clog, [method |-> method, result |-> result])

\* lines 405-413
InitCleanup ==
    /\ IdleParser
    /\ IdleStatus
    /\ IdleSummary
    /\ IdleAnsi
    /\ IdleApi
    /\ IdleDiary
    /\ IdleTracker
    /\ IdleScp
    /\ client = "none"
    /\ clog = <<>>
    /\ results = [disk_before |-> "None", disk_after |-> "None",
                  success |-> FALSE, nested_machine |-> "None"]
    /\ cpc = "connect"

\* lines 418-419 with connect, lines 92-127: True, or False on any exception
connect ==
    /\ cpc = "connect"
    /\ \E ok \in BOOLEAN :
          /\ client' = IF ok THEN "open" ELSE "failed"
          /\ clog' = Logged("connect", IF ok THEN "True" ELSE "False")
          /\ cpc' = IF ok THEN "disk_before" ELSE "returned"
    /\ UNCHANGED <<results, notCleanupVars>>

\* lines 423-424 and 433-436
get_disk_usage ==
    /\ cpc \in {"disk_before", "disk_after"}
    /\ \E r \in DiskResults :
          /\ clog' = Logged(cpc, r)
          /\ results' = IF cpc = "disk_before"
                        THEN [results EXCEPT !.disk_before = r]
                        ELSE [results EXCEPT !.disk_after = r, !.success = TRUE]
    /\ cpc' = StepAfter(cpc)
    /\ UNCHANGED <<client, notCleanupVars>>

\* line 427; the returned flag is not used
git_clean ==
    /\ cpc = "git_clean"
    /\ \E r \in {"True", "False"} : clog' = Logged(cpc, r)
    /\ cpc' = StepAfter(cpc)
    /\ UNCHANGED <<client, results, notCleanupVars>>

\* line 430
docker_cleanup ==
    /\ cpc = "docker_cleanup"
    /\ clog' = Logged(cpc, "True")
    /\ cpc' = StepAfter(cpc)
    /\ UNCHANGED <<client, results, notCleanupVars>>

\* lines 439-444
get_remote_machine_var ==
    /\ cpc = "remote_var"
    /\ \E r \in RemoteMachines :
          /\ clog' = Logged(cpc, r)
          /\ cpc' = IF r # "None" THEN "nested" ELSE "finally"
    /\ UNCHANGED <<client, results, notCleanupVars>>

\* line 442
cleanup_nested_machine ==
    /\ cpc = "nested"
    /\ clog' = Logged(cpc, "dict")
    /\ results' = [results EXCEPT !.nested_machine = "dict"]
    /\ cpc' = "finally"
    /\ UNCHANGED <<client, notCleanupVars>>

\* run_command, lines 135-169, catches nothing: an exception of exec_command
\* leaves the try block
StepRaises ==
    /\ cpc \in TrySteps
    /\ clog' = Logged(cpc, "raise")
    /\ cpc' = "unwind"
    /\ UNCHANGED <<client, results, notCleanupVars>>

\* the finally clause, lines 446-447, then return (line 449) or re-raise
disconnect ==
    /\ cpc \in {"finally", "unwind"}
    /\ client' = "closed"
    /\ clog' = Logged("disconnect", "None")
    /\ cpc' = IF cpc = "unwind" THEN "raised" ELSE "returned"
    /\ UNCHANGED <<results, notCleanupVars>>

NextCleanup ==
    \/ connect
    \/ get_disk_usage
    \/ git_clean
    \/ docker_cleanup
    \/ get_remote_machine_var
    \/ cleanup_nested_machine
    \/ StepRaises
    \/ disconnect

SpecCleanup == InitCleanup /\ [][NextCleanup]_vars

\* the claimed order of the calls after connect
ClaimedOrder ==
    <<"disk_before", "git_clean", "docker_cleanup", "disk_after",
      "remote_var", "nested">>

CleanupOver == cpc \in {"returned", "raised"}

\* C29: remote commands run only between a successful connect and its
\* disconnect.  connect is the first call; when it fails nothing else runs
\* and main_machine.success stays False; when it succeeds the steps run in
\* the order disk-before, git clean, docker cleanup, disk-after, remote
\* machine lookup, nested cleanup, the last one only when a remote machine
\* was found, no step runs after one that raised, and disconnect is the last
\* call on every path.
C29_OrderedBetweenConnectAndDisconnect ==
    /\ clog # <<>> => clog[1].method = "connect"
    /\ (clog # <<>> /\ clog[1].result = "False") =>
           /\ Len(clog) = 1
           /\ cpc = "returned"
           /\ ~results.success
    /\ \A i \in 2 .. Len(clog) :
           /\ clog[i].method # "connect"
           /\ clog[1].result = "True"
           /\ clog[i].method = "disconnect" => i = Len(clog) /\ CleanupOver
           /\ clog[i].method # "disconnect" =>
                  /\ i - 1 <= Len(ClaimedOrder)
                  /\ clog[i].method = ClaimedOrder[i - 1]
                  /\ i > 2 => clog[i - 1].result # "raise"
                  /\ clog[i].method = "nested" =>
                         clog[i - 1].result = "nested-host"
                  /\ client = "open" \/ i < Len(clog)
    /\ (CleanupOver /\ clog[1].result = "True") =>
           /\ clog[Len(clog)].method = "disconnect"
           /\ client = "closed"
    /\ results.success =>
           \E i \in 1 .. Len(clog) :
               clog[i].method = "disk_after" /\ clog[i].result # "raise"

\* C29 witness: every step ran, the nested cleanup raised, and disconnect ran.
C29_Witness ==
    /\ cpc = "raised"
    /\ Len(clog) = 8
    /\ clog[7] = [method |-> "nested", result |-> "raise"]
    /\ clog[8].method = "disconnect"
    /\ results.success

----------------------------------------------------------------------------
(* deploy_cheetah.py: scp_files.  A file is modelled by whether it lies in  *)
(* a subdirectory of cheetah_dir; scp_log records each ssh and scp command  *)
(* with its exit code.                                                      *)

MaxFiles == 3

ExitCodes == {0, 1}

FileLists == UNION {[1 .. n -> [subdir : BOOLEAN]] : n \in 0 .. MaxFiles}

\* success after a copy when the last copy alone decides
AfterCopyLastWins(ok, rc) == rc = 0

\* lines 92-95: a non-zero exit code clears success
AfterCopy(ok, rc) == IF rc # 0 THEN FALSE ELSE ok

Ran(log, command, file, rc) ==
    Append(log, [cmd |-> command, file |-> file, rc |-> rc])

InitScp ==
    /\ IdleParser
    /\ IdleStatus
    /\ IdleSummary
    /\ IdleAnsi
    /\ IdleApi
    /\ IdleDiary
    /\ IdleTracker
    /\ IdleCleanup
    /\ files \in FileLists
    /\ scp_pc = "call"
    /\ scp_pos = 0
    /\ success = FALSE
    /\ scp_ret = "None"
    /\ scp_log = <<>>

\* lines 63-65
CheckFiles ==
    /\ scp_pc = "call"
    /\ IF files = <<>>
       THEN scp_ret' = "True" /\ scp_pc' = "returned"
       ELSE scp_ret' = scp_ret /\ scp_pc' = "mkdir"
    /\ UNCHANGED <<files, scp_pos, success, scp_log, notScpVars>>

\* lines 67-75
MakeRemoteDir ==
    /\ scp_pc = "mkdir"
    /\ \E rc \in ExitCodes :
          /\ scp_log' = Ran(scp_log, "mkdir", 0, rc)
          /\ IF rc # 0
             THEN scp_ret' = "False" /\ scp_pc' = "returned" /\ success' = success
             ELSE scp_ret' = scp_ret /\ scp_pc' = "loop" /\ success' = TRUE
    /\ UNCHANGED <<files, scp_pos, notScpVars>>

\* lines 76-95: one iteration of the loop
CopyFile ==
    /\ scp_pc = "loop"
    /\ scp_pos < Len(files)
    /\ \E rc \in ExitCodes, subrc \in ExitCodes :
          /\ scp_log' = Ran(IF files[scp_pos + 1].subdir
                            THEN Ran(scp_log, "mkdir", scp_pos + 1, subrc)
                            ELSE scp_log,
                            "scp", scp_pos + 1, rc)
          /\ success' = AfterCopy(success, rc)
    /\ scp_pos' = scp_pos + 1
    /\ UNCHANGED <<files, scp_pc, scp_ret, notScpVars>>

\* line 97
ReturnSuccess ==
    /\ scp_pc = "loop"
    /\ scp_pos = Len(files)
    /\ scp_ret' = IF success THEN "True" ELSE "False"
    /\ scp_pc' = "returned"
    /\ UNCHANGED <<files, scp_pos, success, scp_log, notScpVars>>

NextScp ==
    \/ CheckFiles
    \/ MakeRemoteDir
    \/ CopyFile
    \/ ReturnSuccess

SpecScp == InitScp /\ [][NextScp]_vars

\* the files whose scp command ran, and those whose scp exited with 0
Attempted == {i \in 1 .. Len(files) :
                 \E k \in 1 .. Len(scp_log) :
                     scp_log[k].cmd = "scp" /\ scp_log[k].file = i}

Copied == {i \in 1 .. Len(files) :
              \E k \in 1 .. Len(scp_log) :
                  /\ scp_log[k].cmd = "scp"
                  /\ scp_log[k].file = i
                  /\ scp_log[k].rc = 0}

RootMkdirFailed ==
    scp_log # <<>> /\ scp_log[1].file = 0 /\ scp_log[1].rc # 0

\* C30: once scp_files has returned, it returned True exactly when every file
\* was copied with exit code 0; with an empty list it returned True and ran
\* no command; when the root mkdir failed it returned False and ran no scp;
\* otherwise scp ran for every file, also for those after a failed copy.
C30_TrueIffAllCopied ==
    scp_pc = "returned" =>
        /\ scp_ret \in {"True", "False"}
        /\ scp_ret = "True" <=> Copied = 1 .. Len(files)
        /\ files = <<>> => scp_log = <<>>
        /\ RootMkdirFailed => scp_ret = "False" /\ Attempted = {}
        /\ ~RootMkdirFailed => Attempted = 1 .. Len(files)

\* C30 witness: three files, the copy of the first failed, the later two were
\* copied, and the function returned False.
C30_Witness ==
    /\ scp_pc = "returned"
    /\ Len(files) = 3
    /\ Copied = {2, 3}
    /\ Attempted = {1, 2, 3}
    /\ scp_ret = "False"

====
